---- MODULE Spec2Model ----
(***************************************************************************)
(* esx-doctor: the per-session data holder (Session, SessionStore and the  *)
(* request handlers that replace or read a session's DataFile) and the     *)
(* custom diagnostic-template store.                                       *)
(*                                                                         *)
(* Each HTTP request runs on its own goroutine.  A handler is cut into     *)
(* steps at the points where it takes or releases a lock or touches the    *)
(* file system; a region executed under one mutex is one step.             *)
(***************************************************************************)
EXTENDS Integers, Sequences, FiniteSets, TLC

\* ------------------------------------------------------------------ bounds
\* Number of temp files os.CreateTemp may hand out in one behaviour.
MaxTemp == 1
\* Number of Session objects SessionForRequest may allocate in one behaviour.
MaxObj == 2
\* The wall clock runs from 0 to MaxTime; one unit is 24 hours.
MaxTime == 2

\* The ttl given to NewSessionStore: 24*time.Hour, in clock units.
TTL == 1

\* Goroutines serving requests at the same time.
Threads == {"t1", "t2"}
\* Session IDs: sent by a client in X-ESX-Session-ID or the cookie, or made by
\* randomSessionID() for a request that carries none.
SessionIDs == {"a", "b"}

VARIABLES
    \* ---- session registry and file system
    registry,     \* SessionStore.sessions: session ID -> Session object (0: absent)
    sess,         \* heap of Session objects: object -> [df, lastSeen]
    defaultDF,    \* SessionStore.defaultDF
    disk,         \* paths that exist in the file system
    tmpSeq,       \* number of temp files created so far
    now,          \* time.Now()
    pc,           \* per goroutine: position in its handler
    localDF,      \* per goroutine: newDF (open/upload) or current (series/diagnostics)
    ptr,          \* per goroutine: the *Session SessionForRequest returned (0: none)
    sfr,          \* per goroutine: the locals id and now of a SessionForRequest call
                  \* that runs step by step
    sweepPc,      \* CleanupExpired: position
    sweepNow,     \* CleanupExpired: its local now
    sweepExpired, \* CleanupExpired: its local slice expired
    \* ---- history of the file system calls made by Session.Replace
    installed,    \* temp path -> Session object it was installed in as OwnedTemp
    removeCalls,  \* temp path -> number of os.Remove calls Replace made on it
    \* ---- template store
    builtins,     \* diagnosticTemplateStore.builtins
    custom,       \* diagnosticTemplateStore.custom: key -> template
    persisted,    \* the JSON file at diagnosticTemplateStore.path
    lastCall,     \* the last call made on the store, and whether it returned an error
    inStore,      \* the calls in progress on the store: who holds s.mu, each goroutine's
                  \* position and locals, the calls returned, whether a write of the
                  \* file failed and whether one was made
    \* ---- CSV indexer and series extractor
    csvFile,      \* the content of the CSV file at DataFile.Path: header and data lines
    dataFile,     \* the DataFile buildIndex returned for csvFile
    resp,         \* the last extractSeries call: its arguments and what it returned
    \* ---- diagnostics
    thr,          \* a thresholdProcessor: its parameters and its states
    zig,          \* a numaZigzagProcessor: its parameters and its counters
    rng,          \* a rangeImbalanceProcessor: its parameters and its streaks
    fed,          \* the rows the processor was given by onRow, in order
    diag,         \* the last runDiagnostics call: the findings it returned
    scan          \* a scan of the file in progress: its loop and the line it is at

sessVars == <<registry, sess, defaultDF, disk, tmpSeq, now, pc, localDF, ptr, sfr,
              sweepPc, sweepNow, sweepExpired, installed, removeCalls>>
storeVars == <<builtins, custom, persisted, lastCall, inStore>>
csvVars == <<csvFile, dataFile, resp>>
diagVars == <<thr, zig, rng, fed, diag, scan>>
vars == <<sessVars, storeVars, csvVars, diagVars>>

\* No SessionForRequest call runs step by step on the goroutine.
NoSfr == [id |-> "", now |-> 0]

\* ------------------------------------------------------------- DataFile
\* A DataFile pointer: nil, or a DataFile with its Path and OwnedTemp.
NilDF == [nil |-> TRUE, path |-> <<"", 0>>, ownedTemp |-> FALSE]
MkDF(p, owned) == [nil |-> FALSE, path |-> p, ownedTemp |-> owned]

\* The user's CSV file: the one given with -file (or guessed) at startup, if any.
DefaultPath == <<"usr", 0>>
\* The i-th name os.CreateTemp returns; it never returns the name of an existing file.
TempPath(i) == <<"tmp", i>>
IsTemp(p) == p[1] = "tmp"

\* -------------------------------------------------------------- Session
\* Session.Replace's condition for os.Remove(old.Path).
ShouldRemoveAnyOwner(old, df) ==
    ~old.nil /\ old.path # <<"", 0>> /\ (df.nil \/ old.path # df.path)
ShouldRemoveSamePath(old, df) ==
    ~old.nil /\ old.ownedTemp /\ old.path # <<"", 0>>
ShouldRemove(old, df) ==
    ~old.nil /\ old.ownedTemp /\ old.path # <<"", 0>> /\ (df.nil \/ old.path # df.path)

\* Session.Replace(df) on Session object o, under s.mu.
Replace(o, df) ==
    LET old == sess[o].df IN
    /\ sess' = [sess EXCEPT ![o].df = df]
    /\ disk' = IF ShouldRemove(old, df) THEN disk \ {old.path} ELSE disk
    /\ removeCalls' = IF ShouldRemove(old, df) /\ old.path \in DOMAIN removeCalls
                      THEN [removeCalls EXCEPT ![old.path] = @ + 1]
                      ELSE removeCalls
    /\ installed' = IF ~df.nil /\ df.ownedTemp /\ df.path \in DOMAIN installed
                    THEN [installed EXCEPT ![df.path] = o]
                    ELSE installed

\* Session.Close().
Close(o) == Replace(o, NilDF)

\* now.Sub(sess.LastSeen()) > s.ttl
ExpiredAt(o, t) == t - sess[o].lastSeen > TTL

\* ------------------------------------------------------------- handlers
Idle(t) == pc[t] = "idle"

\* /api/upload and /api/open-url: indexUploadedOrFetchedCSV creates the temp file.
CreateTemp(t) ==
    /\ Idle(t)
    /\ tmpSeq < MaxTemp
    /\ tmpSeq' = tmpSeq + 1
    /\ disk' = disk \cup {TempPath(tmpSeq + 1)}
    /\ installed' = installed @@ (TempPath(tmpSeq + 1) :> 0)
    /\ removeCalls' = removeCalls @@ (TempPath(tmpSeq + 1) :> 0)
    /\ pc' = [pc EXCEPT ![t] = "ingest"]
    /\ localDF' = [localDF EXCEPT ![t] = MkDF(TempPath(tmpSeq + 1), TRUE)]
    /\ UNCHANGED <<registry, sess, defaultDF, now, ptr, sweepPc, sweepNow, sweepExpired>>
    /\ UNCHANGED <<sfr, storeVars, csvVars, diagVars>>

\* indexUploadedOrFetchedCSV: the copy and buildIndex succeed; newDF.OwnedTemp = true.
IngestOk(t) ==
    /\ pc[t] = "ingest"
    /\ pc' = [pc EXCEPT ![t] = "sfr"]
    /\ UNCHANGED <<registry, sess, defaultDF, disk, tmpSeq, now, localDF, ptr,
                   sweepPc, sweepNow, sweepExpired, installed, removeCalls>>
    /\ UNCHANGED <<sfr, storeVars, csvVars, diagVars>>

\* indexUploadedOrFetchedCSV without its os.Remove calls on the failure paths.
IngestFailLeaky(t) ==
    /\ pc[t] = "ingest"
    /\ pc' = [pc EXCEPT ![t] = "idle"]
    /\ localDF' = [localDF EXCEPT ![t] = NilDF]
    /\ UNCHANGED <<registry, sess, defaultDF, disk, tmpSeq, now, ptr,
                   sweepPc, sweepNow, sweepExpired, installed, removeCalls>>
    /\ UNCHANGED <<sfr, storeVars, csvVars, diagVars>>

\* indexUploadedOrFetchedCSV: the copy or buildIndex fails; the temp file is removed
\* and the handler answers 400.
IngestFail(t) ==
    /\ pc[t] = "ingest"
    /\ disk' = disk \ {localDF[t].path}
    /\ pc' = [pc EXCEPT ![t] = "idle"]
    /\ localDF' = [localDF EXCEPT ![t] = NilDF]
    /\ UNCHANGED <<registry, sess, defaultDF, tmpSeq, now, ptr,
                   sweepPc, sweepNow, sweepExpired, installed, removeCalls>>
    /\ UNCHANGED <<sfr, storeVars, csvVars, diagVars>>

\* /api/open: os.Stat(abs) succeeds and buildIndex(abs) builds newDF (OwnedTemp false).
OpenPath(t, p) ==
    /\ Idle(t)
    /\ p \in disk
    /\ pc' = [pc EXCEPT ![t] = "sfr"]
    /\ localDF' = [localDF EXCEPT ![t] = MkDF(p, FALSE)]
    /\ UNCHANGED <<registry, sess, defaultDF, disk, tmpSeq, now, ptr,
                   sweepPc, sweepNow, sweepExpired, installed, removeCalls>>
    /\ UNCHANGED <<sfr, storeVars, csvVars, diagVars>>

\* /api/series and /api/diagnostics/run: the request arrives.
StartRead(t) ==
    /\ Idle(t)
    /\ pc' = [pc EXCEPT ![t] = "sfr"]
    /\ UNCHANGED <<registry, sess, defaultDF, disk, tmpSeq, now, localDF, ptr,
                   sweepPc, sweepNow, sweepExpired, installed, removeCalls>>
    /\ UNCHANGED <<sfr, storeVars, csvVars, diagVars>>

\* The handler's step after SessionForRequest: Replace(newDF) or Get().
AfterSFR(t) == IF localDF[t].nil THEN "get" ELSE "replace"

\* The Session a new ID gets: &Session{df: s.defaultDF, lastSeen: now}.
NewSession == [df |-> defaultDF, lastSeen |-> now]

\* SessionStore.SessionForRequest, under s.mu: hdr is what the request carries and
\* id the ID used, hdr itself or, for "", a random ID no session has. The clock,
\* which the function reads before it waits for s.mu, is read here at the step
\* itself; SfrEnter and SfrLocked below keep the two apart.
SessionForRequest(t, hdr, id) ==
    /\ pc[t] = "sfr"
    /\ IF hdr = "" THEN registry[id] = 0 ELSE id = hdr
    /\ IF registry[id] = 0
       THEN LET o == Cardinality(DOMAIN sess) + 1 IN
            /\ o <= MaxObj
            /\ sess' = sess @@ (o :> NewSession)
            /\ registry' = [registry EXCEPT ![id] = o]
            /\ ptr' = [ptr EXCEPT ![t] = o]
       ELSE /\ sess' = [sess EXCEPT ![registry[id]].lastSeen = now]
            /\ ptr' = [ptr EXCEPT ![t] = registry[id]]
            /\ UNCHANGED registry
    /\ pc' = [pc EXCEPT ![t] = AfterSFR(t)]
    /\ UNCHANGED <<defaultDF, disk, tmpSeq, now, localDF,
                   sweepPc, sweepNow, sweepExpired, installed, removeCalls>>
    /\ UNCHANGED <<sfr, storeVars, csvVars, diagVars>>

\* /api/open, /api/upload, /api/open-url: ....Replace(newDF), then the 200 answer.
DoReplace(t) ==
    /\ pc[t] = "replace"
    /\ Replace(ptr[t], localDF[t])
    /\ pc' = [pc EXCEPT ![t] = "idle"]
    /\ localDF' = [localDF EXCEPT ![t] = NilDF]
    /\ ptr' = [ptr EXCEPT ![t] = 0]
    /\ UNCHANGED <<registry, defaultDF, tmpSeq, now, sweepPc, sweepNow, sweepExpired>>
    /\ UNCHANGED <<sfr, storeVars, csvVars, diagVars>>

\* Session.Get() under s.mu.RLock; a nil file ends the request ("no file loaded").
Get(t) ==
    /\ pc[t] = "get"
    /\ LET current == sess[ptr[t]].df IN
       IF current.nil
       THEN /\ pc' = [pc EXCEPT ![t] = "idle"]
            /\ ptr' = [ptr EXCEPT ![t] = 0]
            /\ UNCHANGED localDF
       ELSE /\ pc' = [pc EXCEPT ![t] = "open"]
            /\ localDF' = [localDF EXCEPT ![t] = current]
            /\ UNCHANGED ptr
    /\ UNCHANGED <<registry, sess, defaultDF, disk, tmpSeq, now,
                   sweepPc, sweepNow, sweepExpired, installed, removeCalls>>
    /\ UNCHANGED <<sfr, storeVars, csvVars, diagVars>>

\* extractSeries / runDiagnostics: os.Open(df.Path) fails when the path is gone.
OpenFile(t) ==
    /\ pc[t] = "open"
    /\ pc' = [pc EXCEPT ![t] = IF localDF[t].path \in disk THEN "reading" ELSE "openerr"]
    /\ UNCHANGED <<registry, sess, defaultDF, disk, tmpSeq, now, localDF, ptr,
                   sweepPc, sweepNow, sweepExpired, installed, removeCalls>>
    /\ UNCHANGED <<sfr, storeVars, csvVars, diagVars>>

\* The scan reaches its end on the open descriptor, or the handler answers the
\* open error with 500; either way the request is over.
FinishRead(t) ==
    /\ pc[t] \in {"reading", "openerr"}
    /\ pc' = [pc EXCEPT ![t] = "idle"]
    /\ localDF' = [localDF EXCEPT ![t] = NilDF]
    /\ ptr' = [ptr EXCEPT ![t] = 0]
    /\ UNCHANGED <<registry, sess, defaultDF, disk, tmpSeq, now,
                   sweepPc, sweepNow, sweepExpired, installed, removeCalls>>
    /\ UNCHANGED <<sfr, storeVars, csvVars, diagVars>>

\* ------------------------------------------------------ expiration sweep
\* CleanupExpired: now := time.Now().
SweepStart ==
    /\ sweepPc = "idle"
    /\ sweepPc' = "lock"
    /\ sweepNow' = now
    /\ UNCHANGED <<registry, sess, defaultDF, disk, tmpSeq, now, pc, localDF, ptr,
                   sweepExpired, installed, removeCalls>>
    /\ UNCHANGED <<sfr, storeVars, csvVars, diagVars>>

\* The sessions CleanupExpired deletes from the map and appends to expired.
ExpiredIDs == {id \in SessionIDs : registry[id] # 0 /\ ExpiredAt(registry[id], sweepNow)}

\* CleanupExpired: the loop over s.sessions, under s.mu.
SweepCollect ==
    /\ sweepPc = "lock"
    /\ registry' = [id \in SessionIDs |-> IF id \in ExpiredIDs THEN 0 ELSE registry[id]]
    /\ sweepExpired' = {registry[id] : id \in ExpiredIDs}
    /\ sweepPc' = IF ExpiredIDs = {} THEN "idle" ELSE "close"
    /\ sweepNow' = 0
    /\ UNCHANGED <<sess, defaultDF, disk, tmpSeq, now, pc, localDF, ptr,
                   installed, removeCalls>>
    /\ UNCHANGED <<sfr, storeVars, csvVars, diagVars>>

\* CleanupExpired: sess.Close() for one element of expired.
SweepClose(o) ==
    /\ sweepPc = "close"
    /\ o \in sweepExpired
    /\ Close(o)
    /\ sweepExpired' = sweepExpired \ {o}
    /\ sweepPc' = IF sweepExpired = {o} THEN "idle" ELSE "close"
    /\ UNCHANGED <<registry, defaultDF, tmpSeq, now, pc, localDF, ptr, sweepNow>>
    /\ UNCHANGED <<sfr, storeVars, csvVars, diagVars>>

\* The wall clock advances.
Tick ==
    /\ now < MaxTime
    /\ now' = now + 1
    /\ UNCHANGED <<registry, sess, defaultDF, disk, tmpSeq, pc, localDF, ptr,
                   sweepPc, sweepNow, sweepExpired, installed, removeCalls>>
    /\ UNCHANGED <<sfr, storeVars, csvVars, diagVars>>

\* The template store before newDiagnosticTemplateStore has run.
NoCall == [pc |-> "idle"]
NoStoreCalls == [mu |-> "", of |-> [t \in Threads |-> NoCall], returned |-> 0, failed |-> FALSE, wrote |-> FALSE]
StoreIdle ==
    /\ inStore = NoStoreCalls
    /\ builtins = <<>>
    /\ custom = <<>>
    /\ persisted = [exists |-> FALSE, templates |-> <<>>]
    /\ lastCall = [op |-> "none", id |-> <<>>, err |-> FALSE, arg |-> <<>>,
                   before |-> [custom |-> <<>>,
                               persisted |-> [exists |-> FALSE, templates |-> <<>>]]]

\* No CSV file has been indexed and no series extracted.
NoCsvFile == [header |-> [len |-> 0, columns |-> <<>>], lines |-> <<>>]
NoDataFile == [built |-> FALSE, err |-> FALSE]
NoResp == [called |-> FALSE]
CsvIdle ==
    /\ csvFile = NoCsvFile
    /\ dataFile = NoDataFile
    /\ resp = NoResp

\* No processor has been built, no diagnostics run and no scan started.
NoProc == [built |-> FALSE]
NoDiag == [called |-> FALSE]
NoScan == [loop |-> "none"]
DiagIdle ==
    /\ thr = NoProc
    /\ zig = NoProc
    /\ rng = NoProc
    /\ fed = <<>>
    /\ diag = NoDiag
    /\ scan = NoScan

\* main: NewSessionStore(df, 24*time.Hour) with the startup file, if any.
SessInit ==
    /\ registry = [id \in SessionIDs |-> 0]
    /\ sess = <<>>
    /\ defaultDF \in {NilDF, MkDF(DefaultPath, FALSE)}
    /\ disk = {DefaultPath}
    /\ tmpSeq = 0
    /\ now = 0
    /\ pc = [t \in Threads |-> "idle"]
    /\ localDF = [t \in Threads |-> NilDF]
    /\ ptr = [t \in Threads |-> 0]
    /\ sfr = [t \in Threads |-> NoSfr]
    /\ sweepPc = "idle"
    /\ sweepNow = 0
    /\ sweepExpired = {}
    /\ installed = <<>>
    /\ removeCalls = <<>>
    /\ StoreIdle
    /\ CsvIdle
    /\ DiagIdle

\* The requests goroutines T serve for the session IDs I, the sweep and the clock.
SessNextOf(T, I) ==
    \/ \E t \in T : CreateTemp(t)
    \/ \E t \in T : IngestOk(t)
    \/ \E t \in T : IngestFail(t)
    \/ \E t \in T, p \in disk : OpenPath(t, p)
    \/ \E t \in T : StartRead(t)
    \/ \E t \in T, hdr \in I \cup {""}, id \in I : SessionForRequest(t, hdr, id)
    \/ \E t \in T : DoReplace(t)
    \/ \E t \in T : Get(t)
    \/ \E t \in T : OpenFile(t)
    \/ \E t \in T : FinishRead(t)
    \/ SweepStart
    \/ SweepCollect
    \/ \E o \in DOMAIN sess : SweepClose(o)
    \/ Tick

\* main started with a startup CSV: the store's defaultDF is not nil.
BootInit == SessInit /\ ~defaultDF.nil

\* Concurrent requests on any session, with or without a startup CSV.
SessNext == SessNextOf(Threads, SessionIDs)
SessSpec == SessInit /\ [][SessNext]_vars

\* Concurrent requests that all carry the same session ID.
OneSessNext == SessNextOf(Threads, {"a"})
OneSessSpec == BootInit /\ [][OneSessNext]_vars

\* Requests served one after the other, for any session.
SeqNext == SessNextOf({"t1"}, SessionIDs)
SeqSpec == BootInit /\ [][SeqNext]_vars

\* ------------------------------------------------- session claims: helpers
\* No request and no sweep is in flight.
Quiescent == (\A t \in Threads : pc[t] = "idle") /\ sweepPc = "idle"
\* The temp files on disk that were installed in Session object o as OwnedTemp.
TempFilesOf(o) == {p \in disk \cap DOMAIN installed : installed[p] = o}
\* Session object o is the session of some ID.
Registered(o) == \E id \in SessionIDs : registry[id] = o
\* This step is the Replace call of a request that went through Session object o.
ReplaceStepOn(o) == \E t \in Threads : pc[t] = "replace" /\ ptr[t] = o /\ pc'[t] = "idle"
\* This step is the sweep's Close call on Session object o.
CloseStepOn(o) == sweepPc = "close" /\ o \in sweepExpired /\ o \notin sweepExpired'
\* This step is the sweep's pass over the registry.
CollectStep == sweepPc = "lock" /\ sweepPc' # "lock"
\* The backing file of DataFile df exists before this step and not after it.
BackingFileDeleted(df) == ~df.nil /\ df.path \in disk /\ df.path \notin disk'

\* C1 (as claimed): whenever no operation is in flight, at most one system-created
\* temp file that was installed in a session exists on disk, and a Close of the
\* session leaves none of them on disk.
C1_TempFileHygiene ==
    /\ [](Quiescent => \A o \in DOMAIN sess : Cardinality(TempFilesOf(o)) <= 1)
    /\ [][\A o \in DOMAIN sess : CloseStepOn(o) => TempFilesOf(o)' = {}]_vars

\* C2 (as claimed): a reader that obtained an owned-temp DataFile from Session.Get
\* finds its backing file in place for as long as it uses it, whatever Replace
\* installs meanwhile, and never ends in an open error.
C2_ReaderSafety ==
    \A t \in Threads :
        (pc[t] \in {"open", "reading", "openerr"} /\ localDF[t].ownedTemp) =>
            localDF[t].path \in disk /\ pc[t] # "openerr"

\* C3 (as claimed): no two Session objects hold a DataFile whose path is the same
\* system-created temp file.
C3_NoSharedTempFile ==
    \A o1, o2 \in DOMAIN sess :
        (o1 # o2 /\ ~sess[o1].df.nil /\ ~sess[o2].df.nil /\ IsTemp(sess[o1].df.path))
            => sess[o1].df.path # sess[o2].df.path

\* C4: every Replace or Close on a session that displaces an owned temp file by nil
\* or by a file of another path makes exactly one os.Remove call on it, the first and
\* only one in the file's life, and the file is gone; a Replace by a file of the same
\* path makes no os.Remove call and leaves the file in place; and no file is deleted
\* that is the session's current file after the call.
C4_DeleteOnceOnDisplacement ==
    [][\A o \in DOMAIN sess :
        (ReplaceStepOn(o) \/ CloseStepOn(o)) =>
            LET old == sess[o].df
                new == sess'[o].df
            IN  /\ (~old.nil /\ old.ownedTemp /\ (new.nil \/ new.path # old.path)) =>
                       /\ old.path \notin disk'
                       /\ removeCalls[old.path] = 0
                       /\ removeCalls'[old.path] = 1
                /\ (~old.nil /\ ~new.nil /\ new.path = old.path) =>
                       /\ removeCalls' = removeCalls
                       /\ disk' = disk
                /\ \A p \in disk \ disk' : new.nil \/ new.path # p
                /\ \A p \in DOMAIN removeCalls : removeCalls'[p] <= 1
      ]_vars

\* C4 witness: an owned temp file was installed in a session, displaced and removed
\* by one os.Remove call.
C4_Witness ==
    \E p \in DOMAIN installed :
        installed[p] # 0 /\ removeCalls[p] = 1 /\ p \notin disk

\* C5 (as claimed): a step changes the DataFile a session holds, or deletes the
\* backing file that DataFile refers to, only if it is an operation performed
\* through that very session.
C5_SessionIsolation ==
    [][\A o \in DOMAIN sess :
        (sess'[o].df # sess[o].df \/ BackingFileDeleted(sess[o].df))
            => (ReplaceStepOn(o) \/ CloseStepOn(o))
      ]_vars

\* C6 (as claimed): the sweep removes from the registry exactly the sessions with
\* now - lastSeen > ttl; it closes each removed session, deleting its owned temp
\* file; it leaves every other session, and the backing file of its DataFile,
\* untouched; and a later request with an evicted ID gets a fresh Session object
\* holding the default file.
C6_ExpirationSweep ==
    [][/\ CollectStep =>
            \A id \in SessionIDs :
                registry'[id] =
                    IF registry[id] # 0 /\ sweepNow - sess[registry[id]].lastSeen > TTL
                    THEN 0 ELSE registry[id]
       /\ \A o \in DOMAIN sess :
            /\ CloseStepOn(o) =>
                  /\ sess'[o].df.nil
                  /\ (~sess[o].df.nil /\ sess[o].df.ownedTemp) => sess[o].df.path \notin disk'
            /\ ((CollectStep \/ \E x \in DOMAIN sess : CloseStepOn(x))
                    /\ Registered(o)' /\ o \notin sweepExpired) =>
                  /\ sess'[o] = sess[o]
                  /\ ~BackingFileDeleted(sess[o].df)
       /\ \A o \in DOMAIN sess' \ DOMAIN sess :
            sess'[o] = [df |-> defaultDF, lastSeen |-> now]
      ]_vars

\* C7: the bootstrap DataFile is the initial file of every Session object the store
\* creates, and its backing file exists in every reachable state.
C7_DefaultFileKept ==
    /\ [](~defaultDF.nil => defaultDF.path \in disk)
    /\ [][\A o \in DOMAIN sess' \ DOMAIN sess : sess'[o].df = defaultDF]_vars

\* C7 witness: the default file was handed to a session, displaced there by an upload
\* that was itself displaced or closed, and a session was closed by the sweep.
C7_Witness ==
    /\ ~defaultDF.nil
    /\ \E p \in DOMAIN removeCalls : removeCalls[p] = 1
    /\ \E o \in DOMAIN sess : ~Registered(o) /\ sess[o].df.nil /\ sweepPc = "idle"

\* ================================================================ strings
\* A Go string whose characters matter is the sequence of its characters.  The
\* characters the inputs use, in ASCII order.
Alphabet == <<" ", "!", ".", "1", "2", "M", "R", "b", "c", "m", "o", "r", "s", "t",
              "u", "x", "y">>
CharCodes == [c \in {Alphabet[i] : i \in 1..Len(Alphabet)} |->
                 CHOOSE i \in 1..Len(Alphabet) : Alphabet[i] = c]
CharCode(c) == CharCodes[c]
\* strings.ToLower
ToLowerChar(c) == IF c = "M" THEN "m" ELSE IF c = "R" THEN "r" ELSE c
ToLower(str) == [i \in 1..Len(str) |-> ToLowerChar(str[i])]
\* (ch >= 'a' && ch <= 'z') || (ch >= '0' && ch <= '9')
IsLowerAlnum(c) == c \in {"1", "2", "b", "c", "m", "o", "r", "s", "t", "u", "x", "y"}

RECURSIVE TrimLeft(_, _)
TrimLeft(str, c) ==
    IF str # <<>> /\ Head(str) = c THEN TrimLeft(Tail(str), c) ELSE str
RECURSIVE TrimRight(_, _)
TrimRight(str, c) ==
    IF str # <<>> /\ str[Len(str)] = c THEN TrimRight(SubSeq(str, 1, Len(str) - 1), c)
    ELSE str
\* strings.Trim(str, c) and strings.TrimSpace(str)
Trim(str, c) == TrimRight(TrimLeft(str, c), c)
TrimSpace(str) == Trim(str, " ")
\* strings.HasPrefix
HasPrefix(str, pre) == Len(str) >= Len(pre) /\ SubSeq(str, 1, Len(pre)) = pre
\* a < b on Go strings
RECURSIVE StrLess(_, _)
StrLess(a, b) ==
    IF b = <<>> THEN FALSE
    ELSE IF a = <<>> THEN TRUE
    ELSE IF Head(a) = Head(b) THEN StrLess(Tail(a), Tail(b))
    ELSE CharCode(Head(a)) < CharCode(Head(b))
\* strings.TrimSpace(str) == "" for a string kept whole
IsBlank(str) == str \in {"", " "}

\* ========================================================= template store
\* Longest list importTemplates is given.
MaxImport == 2

CustomPrefix == <<"c", "u", "s", "t", "o", "m", ".">>
\* Values time.Now().UnixNano() may print as.
NanoStamps == {<<"1">>, <<"2">>}

\* A DiagnosticTemplate: the fields the store reads or writes.  id, name and
\* description are character sequences; severity, dtype (Detector.Type) and logic
\* (Detector.Filter.Logic) are only tested for blankness and are kept whole.
Tpl(id, name, dtype, minc) ==
    [id |-> id, name |-> name, description |-> <<>>, severity |-> "",
     dtype |-> dtype, logic |-> "", minc |-> minc]

\* normalizeTemplate
normalizeTemplate(t) ==
    [id |-> TrimSpace(t.id),
     name |-> TrimSpace(t.name),
     description |-> TrimSpace(t.description),
     severity |-> IF IsBlank(t.severity) THEN "medium" ELSE t.severity,
     dtype |-> IF IsBlank(t.dtype) THEN "threshold_sustained" ELSE t.dtype,
     logic |-> IF IsBlank(t.logic) THEN "and" ELSE t.logic,
     minc |-> IF t.minc <= 0 THEN 6 ELSE t.minc]

\* templateIDFromName: the loop that keeps letters and digits and writes one "."
\* for each run of other characters.
RECURSIVE collapse(_, _, _)
collapse(name, i, lastDot) ==
    IF i > Len(name) THEN <<>>
    ELSE IF IsLowerAlnum(name[i]) THEN <<name[i]>> \o collapse(name, i + 1, FALSE)
    ELSE IF ~lastDot THEN <<".">> \o collapse(name, i + 1, TRUE)
    ELSE collapse(name, i + 1, TRUE)

\* templateIDFromName(name), with nano what time.Now().UnixNano() prints as.
templateIDFromName(name, nano) ==
    LET lower == TrimSpace(ToLower(name))
        id == Trim(collapse(lower, 1, FALSE), ".")
    IN  IF lower = <<>> THEN CustomPrefix \o nano
        ELSE IF id = <<>> THEN CustomPrefix \o (CustomPrefix \o nano)
        ELSE CustomPrefix \o id

\* templateIDFromName(name) reads the clock: name has no letter or digit.
readsClock(name) ==
    LET lower == TrimSpace(ToLower(name)) IN
    lower = <<>> \/ Trim(collapse(lower, 1, FALSE), ".") = <<>>

\* upsert and importTemplates: t = normalizeTemplate(t), then the ID from the name
\* when t.ID is empty.
withID(t, nano) ==
    LET n == normalizeTemplate(t) IN
    IF n.id = <<>> THEN [n EXCEPT !.id = templateIDFromName(n.name, nano)] ELSE n

\* m[k] = v on a Go map.
Put(m, k, v) == [x \in DOMAIN m \cup {k} |-> IF x = k THEN v ELSE m[x]]
\* delete(m, k) on a Go map.
DelNothing(m, k) == m
Del(m, k) == [x \in DOMAIN m \ {k} |-> m[x]]

\* The built-in templates loadDiagnosticTemplates hands to the store, by ID: their
\* ID, name and detector type are not blank and their severity is set.
BuiltinID == <<"b", "1">>
Builtins ==
    (BuiltinID :> [Tpl(BuiltinID, <<"b">>, "high_ready", 6) EXCEPT !.severity = "high"])

\* ---- inputs
\* Templates a client sends to upsert.
UpsertInputs ==
    { Tpl(<<>>, <<"M", "y", " ", "R">>, "t", 0),
      Tpl(<<>>, <<" ", "m", "y", "!", "r">>, "", 3),
      Tpl(BuiltinID, <<"M">>, "t", 0),
      Tpl(<<" ">> \o BuiltinID \o <<" ">>, <<"M">>, "t", 0),
      Tpl(CustomPrefix \o <<"x">>, <<"M">>, "t", 0),
      Tpl(CustomPrefix \o <<"x">>, <<"R">>, "t", 3),
      Tpl(<<"x">>, <<"M">>, "t", 0),
      Tpl(<<>>, <<>>, "t", 0),
      Tpl(CustomPrefix \o <<"x">>, <<" ">>, "t", 0),
      Tpl(<<>>, <<"!">>, "t", 0) }
\* IDs a client sends to delete.
DeleteInputs ==
    { BuiltinID, <<" ">> \o BuiltinID, CustomPrefix \o <<"x">>, <<"x">>, <<" ">>,
      CustomPrefix \o <<"m", "y", ".", "r">> }
\* Templates of the lists a client sends to importTemplates.
ImportInputs ==
    { Tpl(<<>>, <<" ", "m", "y", "!", "r">>, "", 3),
      Tpl(BuiltinID, <<"M">>, "t", 0),
      Tpl(<<"x">>, <<"M">>, "t", 0),
      Tpl(CustomPrefix \o <<"x">>, <<" ">>, "", 0) }
ImportLists == UNION {[1..n -> ImportInputs] : n \in 0..MaxImport}
\* Contents of the file at the store's path when the program starts: no file, an
\* empty list, what an earlier run persisted, and files edited by hand or written
\* when the set of built-ins was another.
StartFiles ==
    { [exists |-> FALSE, templates |-> <<>>],
      [exists |-> TRUE, templates |-> <<>>],
      [exists |-> TRUE,
       templates |-> <<normalizeTemplate(Tpl(CustomPrefix \o <<"x">>, <<"M">>, "t", 0))>>],
      [exists |-> TRUE,
       templates |-> <<Tpl(BuiltinID, <<"M">>, "t", 0), Tpl(<<" ">>, <<"M">>, "t", 0)>>],
      [exists |-> TRUE,
       templates |-> <<Tpl(<<" ">> \o BuiltinID \o <<" ">>, <<"b">>, "t", 0)>>] }

\* The names templates have in the store, trimmed as normalizeTemplate trims them.
Names ==
    {TrimSpace(t.name) :
        t \in UpsertInputs \cup ImportInputs
               \cup UNION {{f.templates[i] : i \in 1..Len(f.templates)} : f \in StartFiles}}
    \cup {TrimSpace(Builtins[k].name) : k \in DOMAIN Builtins}
\* strings.ToLower(a) < strings.ToLower(b), tabulated over Names.
nameLess == [a \in Names |-> [b \in Names |-> StrLess(ToLower(a), ToLower(b))]]

\* loadCustom: the loop over payload.Templates, from entry i on.
RECURSIVE loadFrom(_, _, _)
loadFrom(cm, templates, i) ==
    IF i > Len(templates) THEN cm
    ELSE LET t == templates[i] IN
         IF TrimSpace(t.id) = <<>> \/ t.id \in DOMAIN Builtins
         THEN loadFrom(cm, templates, i + 1)
         ELSE loadFrom(Put(cm, t.id, normalizeTemplate(t)), templates, i + 1)

\* loadCustom: the custom map read from the file (none when the file is missing).
loadCustom(file) == IF file.exists THEN loadFrom(<<>>, file.templates, 1) ELSE <<>>

\* sort.Slice(out, less) on the values of cm taken in any order: the orders of the
\* keys in S in which no value's lower-cased name is below that of one before it.
RECURSIVE sortedOrders(_, _)
sortedOrders(cm, S) ==
    IF S = {} THEN {<<>>}
    ELSE LET least == {x \in S : \A y \in S : ~nameLess[cm[y].name][cm[x].name]}
         IN  UNION {{<<x>> \o q : q \in sortedOrders(cm, S \ {x})} : x \in least}

\* persistCustomLocked: the files it may write for custom map cm.
persistCustomLocked(cm) ==
    {[exists |-> TRUE, templates |-> [i \in 1..Len(q) |-> cm[q[i]]]] :
        q \in sortedOrders(cm, DOMAIN cm)}

\* list(): the normalized built-in and custom templates (their order is not modelled).
list ==
    {[kind |-> "builtin", key |-> k, t |-> normalizeTemplate(builtins[k])] :
        k \in DOMAIN builtins}
    \cup {[kind |-> "custom", key |-> k, t |-> normalizeTemplate(custom[k])] :
        k \in DOMAIN custom}

\* upsert: the error it returns for t (normalized, with its ID), "" for none.
UpsertErrorNoBuiltinCheck(t) ==
    IF TrimSpace(t.name) = <<>> THEN "name"
    ELSE IF IsBlank(t.dtype) THEN "type"
    ELSE ""
UpsertError(t) ==
    IF TrimSpace(t.name) = <<>> THEN "name"
    ELSE IF IsBlank(t.dtype) THEN "type"
    ELSE IF t.id \in DOMAIN builtins THEN "builtin"
    ELSE ""

\* lastCall.before of a call whose starting point is not kept.
NoBefore == [custom |-> <<>>, persisted |-> [exists |-> FALSE, templates |-> <<>>]]

\* The store call returns: the custom map is cm; the file is rewritten from cm when
\* the call got as far as persistCustomLocked (reached), whose MkdirAll, MarshalIndent
\* and WriteFile succeed; failed tells whether the call returns an error.
\* lastCall keeps the call's argument arg (upsert's template, delete's ID) and the
\* history before: for an upsert that stored its template, the map and the file it
\* found, and the same for the delete of that template's ID that follows it.
StoreReturn(op, id, cm, reached, failed, arg) ==
    /\ custom' = cm
    /\ IF reached THEN persisted' \in persistCustomLocked(custom')
                  ELSE persisted' = persisted
    /\ lastCall' = [op |-> op, id |-> id, err |-> failed, arg |-> arg,
                    before |->
                        IF op = "upsert" /\ ~failed
                        THEN [custom |-> custom, persisted |-> persisted]
                        ELSE IF op = "delete" /\ ~failed /\ lastCall.op = "upsert"
                                /\ ~lastCall.err /\ lastCall.id = id
                        THEN lastCall.before
                        ELSE NoBefore]
    /\ UNCHANGED <<builtins, inStore>>
    /\ UNCHANGED <<sessVars, csvVars, diagVars>>

\* diagnosticTemplateStore.upsert(t)
upsert(t, nano) ==
    LET t1 == withID(t, nano)
        e == UpsertError(t1)
    IN  IF e # ""
        THEN StoreReturn("upsert", t1.id, custom, FALSE, TRUE, t)
        ELSE StoreReturn("upsert", t1.id, Put(custom, t1.id, t1), TRUE, FALSE, t)

\* diagnosticTemplateStore.delete(id)
delete(id) ==
    LET id1 == TrimSpace(id) IN
    IF id1 = <<>> \/ id1 \in DOMAIN builtins
    THEN StoreReturn("delete", id1, custom, FALSE, TRUE, id)
    ELSE StoreReturn("delete", id1, Del(custom, id1), TRUE, FALSE, id)

\* importTemplates: the loop over in, from entry i on; nano is what the clock prints
\* as during the call.
RECURSIVE importFrom(_, _, _, _)
importFrom(cm, in, nano, i) ==
    IF i > Len(in) THEN cm
    ELSE LET t == withID(in[i], nano) IN
         IF t.id \in DOMAIN builtins \/ t.name = <<>> \/ t.dtype = ""
         THEN importFrom(cm, in, nano, i + 1)
         ELSE importFrom(Put(cm, t.id, t), in, nano, i + 1)

\* diagnosticTemplateStore.importTemplates(in, replace)
importTemplates(in, replace, nano) ==
    StoreReturn("import", <<>>,
                importFrom(IF replace THEN <<>> ELSE custom, in, nano, 1),
                TRUE, FALSE, <<>>)

\* The session registry before main has built it.
SessIdle ==
    /\ registry = [id \in SessionIDs |-> 0]
    /\ sess = <<>>
    /\ defaultDF = NilDF
    /\ disk = {}
    /\ tmpSeq = 0
    /\ now = 0
    /\ pc = [t \in Threads |-> "idle"]
    /\ localDF = [t \in Threads |-> NilDF]
    /\ ptr = [t \in Threads |-> 0]
    /\ sfr = [t \in Threads |-> NoSfr]
    /\ sweepPc = "idle"
    /\ sweepNow = 0
    /\ sweepExpired = {}
    /\ installed = <<>>
    /\ removeCalls = <<>>

\* newDiagnosticTemplateStore(path, builtins): the built-ins by ID, then loadCustom.
StoreInit ==
    /\ inStore = NoStoreCalls
    /\ builtins = Builtins
    /\ persisted \in StartFiles
    /\ custom = loadCustom(persisted)
    /\ lastCall = [op |-> "load", id |-> <<>>, err |-> FALSE, arg |-> <<>>,
                   before |-> NoBefore]
    /\ SessIdle
    /\ CsvIdle
    /\ DiagIdle

\* The clock readings that tell calls given the templates ts apart: all of them
\* when a call derives an ID from the clock, one otherwise.
ClockReadings(ts) ==
    IF \E t \in ts : TrimSpace(t.id) = <<>> /\ readsClock(TrimSpace(t.name))
    THEN NanoStamps
    ELSE {CHOOSE n \in NanoStamps : TRUE}

StoreNext ==
    \/ \E t \in UpsertInputs : \E nano \in ClockReadings({t}) : upsert(t, nano)
    \/ \E id \in DeleteInputs : delete(id)
    \/ \E in \in ImportLists, replace \in BOOLEAN :
          \E nano \in ClockReadings({in[i] : i \in 1..Len(in)}) :
              importTemplates(in, replace, nano)

StoreSpec == StoreInit /\ [][StoreNext]_vars

\* ------------------------------------------------ template store: claims
\* The IDs of the templates held in map m.
TemplateIDs(m) == {m[k].id : k \in DOMAIN m}

\* C8: an upsert or delete whose target ID is the ID of a built-in template returns
\* an error and leaves the custom map and the persisted file as they were.
C8_BuiltinImmutability ==
    [][(lastCall'.op \in {"upsert", "delete"} /\ lastCall'.id \in DOMAIN builtins) =>
          /\ lastCall'.err
          /\ custom' = custom
          /\ persisted' = persisted
          /\ builtins' = builtins]_vars

\* C8 witness: a delete aimed at a built-in ID has returned its error, in a store
\* that holds custom templates and has written its file.
C8_Witness ==
    /\ lastCall.op = "delete"
    /\ lastCall.id \in DOMAIN builtins
    /\ lastCall.err
    /\ custom # <<>>
    /\ persisted.exists /\ Len(persisted.templates) = Cardinality(DOMAIN custom)

\* C9: in every state of the store no template ID is both the ID of a built-in and
\* the ID of a custom template, list() returns no ID twice, and once the store has
\* written its file the file holds no template with a built-in's ID.
C9_DisjointMaps ==
    /\ DOMAIN builtins \cap DOMAIN custom = {}
    /\ TemplateIDs(builtins) \cap TemplateIDs(custom) = {}
    /\ \A e1, e2 \in list : e1.t.id = e2.t.id => e1 = e2
    /\ lastCall.op # "load" /\ persisted.exists =>
          \A i \in 1..Len(persisted.templates) :
              persisted.templates[i].id \notin TemplateIDs(builtins)

\* C10: every entry upsert or import puts into the custom map has an ID beginning
\* with "custom.", and an upsert or delete whose target ID does not begin with
\* "custom." returns an error.
C10_CustomPrefixOwnership ==
    [][/\ lastCall'.op \in {"upsert", "import"} =>
            \A k \in DOMAIN custom' :
                (k \notin DOMAIN custom \/ custom'[k] # custom[k]) =>
                    HasPrefix(k, CustomPrefix) /\ HasPrefix(custom'[k].id, CustomPrefix)
       /\ (lastCall'.op \in {"upsert", "delete"}
             /\ ~HasPrefix(lastCall'.id, CustomPrefix)) => lastCall'.err]_vars

\* C11 (as claimed): an upsert of a template whose name or detector type is empty
\* returns an error and changes neither the custom map nor the persisted file.
C11_UpsertRequiresNameAndType ==
    [][(lastCall'.op = "upsert"
          /\ (TrimSpace(lastCall'.arg.name) = <<>> \/ lastCall'.arg.dtype = "")) =>
          /\ lastCall'.err
          /\ custom' = custom
          /\ persisted' = persisted]_vars

\* This step is an upsert that stores a template given with an empty ID under an ID
\* the custom map does not hold.
FreshUpsertStep ==
    /\ lastCall'.op = "upsert" /\ ~lastCall'.err
    /\ TrimSpace(lastCall'.arg.id) = <<>>
    /\ lastCall'.id \notin DOMAIN custom
\* This step is the delete of the ID the upsert before it stored a template under.
UndoDeleteStep ==
    /\ lastCall.op = "upsert" /\ ~lastCall.err
    /\ TrimSpace(lastCall.arg.id) = <<>>
    /\ lastCall.id \notin DOMAIN lastCall.before.custom
    /\ lastCall'.op = "delete" /\ lastCall'.id = lastCall.id
\* The file f holds exactly the values of map m.
HoldsExactly(f, m) ==
    /\ f.exists
    /\ Len(f.templates) = Cardinality(DOMAIN m)
    /\ {f.templates[i] : i \in 1..Len(f.templates)} = {m[k] : k \in DOMAIN m}

\* C12 (as claimed): an upsert with an empty ID into a map without the derived ID
\* stores the template under "custom." + the lower-cased name with its runs of other
\* characters collapsed to ".", and the file holds exactly the map; the delete of
\* that ID that follows puts the map and the file back as they were before the
\* upsert (an empty list when the map was empty).
C12_RoundTripAsClaimed ==
    [][/\ FreshUpsertStep =>
            /\ lastCall'.id =
                  CustomPrefix \o collapse(TrimSpace(ToLower(lastCall'.arg.name)), 1, FALSE)
            /\ DOMAIN custom' = DOMAIN custom \cup {lastCall'.id}
            /\ HoldsExactly(persisted', custom')
       /\ (UndoDeleteStep /\ HoldsExactly(lastCall.before.persisted, lastCall.before.custom)) =>
            /\ ~lastCall'.err
            /\ custom' = lastCall.before.custom
            /\ persisted' = lastCall.before.persisted
       /\ (UndoDeleteStep /\ lastCall.before.custom = <<>>) =>
            persisted' = [exists |-> TRUE, templates |-> <<>>]]_vars

\* C12 (amended): the derived ID is "custom." + the collapsed name with leading and
\* trailing "." trimmed when the name has a letter or digit, and "custom.custom." +
\* a clock reading otherwise; the upsert leaves every other entry alone and the file
\* holding exactly the map; the delete that follows restores the map, and the file
\* holds exactly the restored map in name order, templates of equal name in any order.
C12_RoundTrip ==
    [][/\ FreshUpsertStep =>
            LET lower == TrimSpace(ToLower(lastCall'.arg.name)) IN
            /\ IF \E i \in 1..Len(lower) : IsLowerAlnum(lower[i])
               THEN lastCall'.id = CustomPrefix \o Trim(collapse(lower, 1, FALSE), ".")
               ELSE \E n \in NanoStamps :
                       lastCall'.id = CustomPrefix \o CustomPrefix \o n
            /\ DOMAIN custom' = DOMAIN custom \cup {lastCall'.id}
            /\ \A k \in DOMAIN custom : custom'[k] = custom[k]
            /\ custom'[lastCall'.id].name = TrimSpace(lastCall'.arg.name)
            /\ HoldsExactly(persisted', custom')
       /\ UndoDeleteStep =>
            /\ ~lastCall'.err
            /\ custom' = lastCall.before.custom
            /\ HoldsExactly(persisted', lastCall.before.custom)
            /\ \A i, j \in 1..Len(persisted'.templates) :
                  i < j => ~nameLess[persisted'.templates[j].name][persisted'.templates[i].name]
      ]_vars

\* C12 witness: an upsert with an empty ID stored a template in a map that held
\* others, and the delete of its ID has put the map back.
C12_Witness ==
    /\ lastCall.op = "delete" /\ ~lastCall.err
    /\ lastCall.before.custom # <<>>
    /\ custom = lastCall.before.custom
    /\ lastCall.id \notin DOMAIN custom
    /\ HoldsExactly(persisted, custom)

\* ============================================================ CSV indexer
\* const indexStride: one row in indexStride gets an index entry.
indexStride == 1000
\* The stride the files of a few lines are indexed with, so that they have stride
\* rows; the scenario files are indexed with indexStride itself.
ScaledStride == 2
\* Longest file, in data lines.
MaxLines == 4
\* The timestamps of the rows are the instants 1..MaxInstant.
MaxInstant == 3

\* time.Time{}: the zero instant, which parseTimeValue returns with its error and
\* which extractSeries takes for "no bound".
NoTime == 0
Instants == 1..MaxInstant

\* A line of the file after the header: undecodable when readCSVLine fails on it or
\* returns no field (a blank line); ts is what parseTimeValue makes of its first
\* field, NoTime when it fails; len is its length in bytes, terminator included;
\* cells are its fields after the first, each one the sequence of the parts that
\* "/" separates in it ("10/20" is <<"10", "20">>, "7" is <<"7">>, "" is <<"">>).
Line(undecodable, ts, len, cells) ==
    [undecodable |-> undecodable, ts |-> ts, len |-> len, cells |-> cells]
BlankLine == Line(TRUE, NoTime, 1, <<>>)

\* IndexEntry{Row, Offset, Time}
IndexEntry(row, offset, time) == [row |-> row, offset |-> offset, time |-> time]

\* The body of buildIndex's loop with "offset += len(line)" before the index entry
\* is made.
indexLineOffsetAfter(st, line, stride) ==
    IF line.undecodable
    THEN [st EXCEPT !.offset = @ + line.len]
    ELSE LET row == st.row + 1
             terr == line.ts = NoTime
         IN  [row |-> row,
              offset |-> st.offset + line.len,
              startTime |-> IF ~terr /\ row = 1 THEN line.ts ELSE st.startTime,
              endTime |-> IF ~terr THEN line.ts ELSE st.endTime,
              index |-> IF (row = 1 \/ row % stride = 0) /\ ~terr
                        THEN Append(st.index, IndexEntry(row, st.offset + line.len, line.ts))
                        ELSE st.index]

\* buildIndex: the body of its loop, for one line read; st holds row, offset and the
\* fields of df the loop writes; stride is indexStride.
indexLine(st, line, stride) ==
    IF line.undecodable
    THEN [st EXCEPT !.offset = @ + line.len]
    ELSE LET row == st.row + 1
             terr == line.ts = NoTime
         IN  [row |-> row,
              offset |-> st.offset + line.len,
              startTime |-> IF ~terr /\ row = 1 THEN line.ts ELSE st.startTime,
              endTime |-> IF ~terr THEN line.ts ELSE st.endTime,
              index |-> IF (row = 1 \/ row % stride = 0) /\ ~terr
                        THEN Append(st.index, IndexEntry(row, st.offset, line.ts))
                        ELSE st.index]

\* buildIndex: its loop, from line i of the file on.
RECURSIVE indexLines(_, _, _, _)
indexLines(st, lines, i, stride) ==
    IF i > Len(lines) THEN st
    ELSE indexLines(indexLine(st, lines[i], stride), lines, i + 1, stride)

\* buildIndex(path) on a file of content file: the DataFile, or the error for an
\* empty file and for a header line without fields.
buildIndex(file, stride) ==
    IF file.header.len = 0 \/ file.header.columns = <<>>
    THEN [built |-> FALSE, err |-> TRUE]
    ELSE LET st == indexLines([row |-> 0, offset |-> file.header.len,
                               startTime |-> NoTime, endTime |-> NoTime,
                               index |-> <<>>], file.lines, 1, stride)
         IN  [built |-> TRUE, err |-> FALSE,
              columns |-> [file.header.columns EXCEPT ![1] = "Time"],
              dataStartOffset |-> file.header.len,
              index |-> st.index,
              rows |-> st.row,
              startTime |-> st.startTime,
              endTime |-> st.endTime]

\* ---- inputs
\* Header lines: their length in bytes and their fields.
Headers ==
    { [len |-> 4, columns |-> <<"t", "c1", "c2">>],
      [len |-> 6, columns |-> <<"(PDH-CSV 4.0)", "c1", "c2">>] }
\* The data lines of the files given to the indexer: blank lines, lines whose first
\* field is no timestamp, and rows with a timestamp, each kind of its own length.
IndexLineKinds ==
    {BlankLine, Line(FALSE, NoTime, 2, << <<"1">> >>)}
    \cup {Line(FALSE, ts, 3, << <<"1">> >>) : ts \in Instants}
\* A file without content and one whose header line has no field.
BadFiles == {NoCsvFile, [header |-> [len |-> 1, columns |-> <<>>], lines |-> <<>>]}

\* A request makes buildIndex read the file.
BuildIndex(stride) ==
    /\ ~dataFile.built /\ ~dataFile.err
    /\ dataFile' = buildIndex(csvFile, stride)
    /\ UNCHANGED <<csvFile, resp>>
    /\ UNCHANGED <<sessVars, storeVars, diagVars>>

\* The indexer alone, on every file of up to MaxLines data lines and on the bad ones.
IndexInit ==
    /\ \/ \E h \in Headers, n \in 0..MaxLines : \E ls \in [1..n -> IndexLineKinds] :
             csvFile = [header |-> h, lines |-> ls]
       \/ csvFile \in BadFiles
    /\ dataFile = NoDataFile
    /\ resp = NoResp
    /\ SessIdle
    /\ StoreIdle
    /\ DiagIdle
IndexNext == BuildIndex(ScaledStride)
IndexSpec == IndexInit /\ [][IndexNext]_vars

\* ---- indexer claims
\* The byte offset at which the p-th data line of file starts.
RECURSIVE OffsetOfLine(_, _)
OffsetOfLine(file, p) ==
    IF p = 1 THEN file.header.len ELSE OffsetOfLine(file, p - 1) + file.lines[p - 1].len
\* The data lines of file whose timestamp parses.
ParsedLines(file) ==
    {p \in 1..Len(file.lines) : ~file.lines[p].undecodable /\ file.lines[p].ts # NoTime}

\* C13 (as claimed): rows is the number of data lines of the file, and the row
\* number of every index entry is the position in the file of the line its offset
\* points to.
C13_RowsArePhysicalLines ==
    dataFile.built =>
        /\ dataFile.rows = Len(csvFile.lines)
        /\ \A i \in 1..Len(dataFile.index) :
              /\ dataFile.index[i].row \in 1..Len(csvFile.lines)
              /\ OffsetOfLine(csvFile, dataFile.index[i].row) = dataFile.index[i].offset

\* C14 (as claimed): when the timestamp of some data row parses, startTime is the
\* timestamp of the first such row and endTime that of the last.
C14_StartAndEndTime ==
    (dataFile.built /\ ParsedLines(csvFile) # {}) =>
        LET first == CHOOSE p \in ParsedLines(csvFile) : \A q \in ParsedLines(csvFile) : p <= q
            last == CHOOSE p \in ParsedLines(csvFile) : \A q \in ParsedLines(csvFile) : q <= p
        IN  /\ dataFile.startTime = csvFile.lines[first].ts
            /\ dataFile.endTime = csvFile.lines[last].ts

\* C15 (as claimed): when the timestamp of some data row parses the index is not
\* empty and its first entry is row 1; dataStartOffset is the length of the header
\* line and the first column is "Time".
C15_IndexStartsAtRowOne ==
    dataFile.built =>
        /\ ParsedLines(csvFile) # {} =>
              dataFile.index # <<>> /\ dataFile.index[1].row = 1
        /\ dataFile.dataStartOffset = csvFile.header.len
        /\ dataFile.columns[1] = "Time"

\* ============================================================ series extractor
\* sort.Search(n, f) with f(i) = !df.Index[i].Time.Before(t): the binary search of
\* the standard library between i and j, which returns the first index at which f
\* holds when f is monotone, and n when there is none.
RECURSIVE Search(_, _, _, _)
Search(df, t, i, j) ==
    IF i < j
    THEN LET h == (i + j) \div 2
         IN  IF df.index[h + 1].time < t
             THEN Search(df, t, h + 1, j)
             ELSE Search(df, t, i, h)
    ELSE i

\* The sort.Search call of findOffset and estimateRows, with f(i) the test
\* !df.Index[i].Time.Before(t): a 0-based position in the index.
searchIndex(df, t) == Search(df, t, 0, Len(df.index))

\* findOffset with the entry at idx instead of the one before it.
findOffsetAtIdx(df, t) ==
    IF Len(df.index) = 0 \/ t = NoTime
    THEN [offset |-> df.dataStartOffset, row |-> 1]
    ELSE LET idx == searchIndex(df, t)
             at == IF idx < Len(df.index) THEN idx + 1 ELSE Len(df.index)
         IN  [offset |-> df.index[at].offset, row |-> df.index[at].row]

\* findOffset(t): the offset and the row number the scan starts at.
findOffset(df, t) ==
    IF Len(df.index) = 0 \/ t = NoTime
    THEN [offset |-> df.dataStartOffset, row |-> 1]
    ELSE LET idx == searchIndex(df, t)
         IN  IF idx <= 0
             THEN [offset |-> df.dataStartOffset, row |-> 1]
             ELSE [offset |-> df.index[idx].offset, row |-> df.index[idx].row]

\* estimateRows(start, end)
estimateRows(df, start, end) ==
    IF Len(df.index) < 2 THEN df.rows
    ELSE IF start = NoTime /\ end = NoTime THEN df.rows
    ELSE LET sidx == searchIndex(df, start)
             eidx == searchIndex(df, end)
             startRow == IF start # NoTime /\ sidx > 0 THEN df.index[sidx].row ELSE 1
             endRow == IF end # NoTime /\ eidx > 0 THEN df.index[eidx].row ELSE df.rows
         IN  IF endRow < startRow THEN 0 ELSE endRow - startRow + 1

\* A float64: a finite number or NaN.
Num(v) == [nan |-> FALSE, v |-> v]
NaN == [nan |-> TRUE, v |-> 0]

\* strconv.ParseFloat on a part of a cell with the spaces around it trimmed: the
\* value, or the error for the empty string and for text that is no number.
ParseFloat(part) ==
    CASE part = "1" -> [ok |-> TRUE, v |-> Num(1)]
      [] part = "2" -> [ok |-> TRUE, v |-> Num(2)]
      [] part = "3" -> [ok |-> TRUE, v |-> Num(3)]
      [] part = "NaN" -> [ok |-> TRUE, v |-> NaN]
      [] OTHER -> [ok |-> FALSE, v |-> NaN]

\* parseFloatValue(raw): a cell with a "/" in it is no number.
parseFloatValue(raw) ==
    IF Len(raw) = 1 THEN ParseFloat(raw[1]) ELSE [ok |-> FALSE, v |-> NaN]

\* parseDelimitedFloatValues(raw, "/"): at least two parts, every one a number.
parseDelimitedFloatValues(raw) ==
    IF Len(raw) >= 2 /\ \A k \in 1..Len(raw) : ParseFloat(raw[k]).ok
    THEN [ok |-> TRUE, values |-> [k \in 1..Len(raw) |-> ParseFloat(raw[k]).v]]
    ELSE [ok |-> FALSE, values |-> <<>>]

\* The name of a series: the column's name, followed by the " [home N]" suffixes
\* that Sprintf puts after it.
SeriesName(base) == [base |-> base, homes |-> <<>>]
\* fmt.Sprintf("%s [home %d]", name, n)
withHome(name, n) == [name EXCEPT !.homes = Append(@, n)]
\* base[:strings.LastIndex(base, " [home ")] when that index is > 0: the last suffix
\* is cut unless the name starts with it.
cutHome(name) ==
    IF name.homes # <<>> /\ ~(name.base = "" /\ Len(name.homes) = 1)
    THEN [name EXCEPT !.homes = SubSeq(@, 1, Len(@) - 1)]
    ELSE name

\* n zeroes
RECURSIVE zeros(_)
zeros(n) == IF n = 0 THEN <<>> ELSE Append(zeros(n - 1), Num(0))

\* A sibling series without the zeroes of the rows kept before it.
newSiblingShort(name, currentPos) == [name |-> name, values |-> <<Num(0)>>]
\* SeriesPayload{Name: name, Values: make([]float64, currentPos+1)}; currentPos is
\* the 0-based position of the row kept last.
newSibling(name, currentPos) == [name |-> name, values |-> zeros(currentPos + 1)]

\* The record of a row: its timestamp field, which is no number, and its cells.
Record(line) == << <<"ts">> >> \o line.cells

\* extractSeries: the loop that adds sibling series until targets has one per value.
RECURSIVE addSiblings(_, _, _, _)
addSiblings(s, targets, n, currentPos) ==
    IF Len(targets) < n
    THEN LET name == withHome(cutHome(s.series[targets[1]].name), Len(targets) + 1)
             s1 == [s EXCEPT !.series = Append(@, newSibling(name, currentPos)),
                             !.validCounts = Append(@, 0)]
         IN  addSiblings(s1, Append(targets, Len(s1.series)), n, currentPos)
    ELSE [s |-> s, targets |-> targets]

\* extractSeries: values[vi] goes to the series targets[vi] at the row kept last.
RECURSIVE setValues(_, _, _, _)
setValues(s, targets, values, vi) ==
    IF vi > Len(values) THEN s
    ELSE setValues([s EXCEPT !.series[targets[vi]].values[Len(s.times)] = values[vi],
                             !.validCounts[targets[vi]] = @ + 1],
                   targets, values, vi + 1)

\* extractSeries: the body of "for i, idx := range cols" for one kept row.
emitCol(s, i, idx, record) ==
    IF idx >= 0 /\ idx < Len(record)
    THEN LET raw == record[idx + 1]
             split == parseDelimitedFloatValues(raw)
             single == parseFloatValue(raw)
             targets == s.seriesMap[i]
         IN  IF split.ok
             THEN LET s1 == IF Len(targets) = 1 /\ Len(split.values) > 1
                            THEN [s EXCEPT !.series[targets[1]].name =
                                             withHome(s.series[targets[1]].name, 1)]
                            ELSE s
                      grown == addSiblings(s1, targets, Len(split.values), Len(s.times) - 1)
                      s2 == [grown.s EXCEPT !.seriesMap[i] = grown.targets]
                  IN  setValues(s2, grown.targets, split.values, 1)
             ELSE IF single.ok
             THEN [s EXCEPT !.series[targets[1]].values[Len(s.times)] = single.v,
                            !.validCounts[targets[1]] = @ + 1]
             ELSE s
    ELSE s

RECURSIVE emitCols(_, _, _, _)
emitCols(s, cols, i, record) ==
    IF i > Len(cols) THEN s
    ELSE emitCols(emitCol(s, i, cols[i], record), cols, i + 1, record)

\* extractSeries: "for si := range resp.Series" appends a zero to every series.
RECURSIVE appendZero(_, _)
appendZero(series, si) ==
    IF si > Len(series) THEN series
    ELSE appendZero([series EXCEPT ![si].values = Append(@, Num(0))], si + 1)

\* time.Time.UnixMilli of an instant counted in seconds.
UnixMilli(t) == t * 1000

\* extractSeries: a row is kept: its time is appended, a zero to every series, and
\* the values of its cells are written over the zeroes.
emit(s, line, cols) ==
    LET s1 == [s EXCEPT !.times = Append(@, UnixMilli(line.ts)),
                        !.series = appendZero(s.series, 1),
                        !.emitted = Append(@, s.row)]
        s2 == emitCols(s1, cols, 1, Record(line))
    IN  [s2 EXCEPT !.kept = @ + 1]

\* The body of the scan loop without the "row++" of a row whose timestamp does
\* not parse.
scanLineNoCount(s, line, a) ==
    IF line.undecodable THEN s
    ELSE IF line.ts = NoTime THEN s
    ELSE IF a.start # NoTime /\ line.ts < a.start THEN [s EXCEPT !.row = @ + 1]
    ELSE IF a.end # NoTime /\ line.ts > a.end THEN [s EXCEPT !.done = TRUE]
    ELSE LET s1 == IF (s.row - a.startRow) % a.step = 0 THEN emit(s, line, a.cols) ELSE s
         IN  [s1 EXCEPT !.row = @ + 1]

\* extractSeries: the body of the scan loop for one line read.
scanLine(s, line, a) ==
    IF line.undecodable THEN s
    ELSE IF line.ts = NoTime THEN [s EXCEPT !.row = @ + 1]
    ELSE IF a.start # NoTime /\ line.ts < a.start THEN [s EXCEPT !.row = @ + 1]
    ELSE IF a.end # NoTime /\ line.ts > a.end THEN [s EXCEPT !.done = TRUE]
    ELSE LET s1 == IF (s.row - a.startRow) % a.step = 0 THEN emit(s, line, a.cols) ELSE s
         IN  [s1 EXCEPT !.row = @ + 1]

\* extractSeries: the scan loop from line p of the file on, until the end of the
\* file or the break at the first row after end.
RECURSIVE scanLines(_, _, _, _)
scanLines(s, lines, p, a) ==
    IF p > Len(lines) \/ s.done THEN s
    ELSE scanLines(scanLine(s, lines[p], a), lines, p + 1, a)

\* extractSeries: "for i, idx := range cols" before the scan: one series per column
\* asked for, named after the column when the file has it.
RECURSIVE initSeries(_, _, _, _)
initSeries(s, df, cols, i) ==
    IF i > Len(cols) THEN s
    ELSE LET name == IF cols[i] >= 0 /\ cols[i] < Len(df.columns)
                     THEN df.columns[cols[i] + 1] ELSE ""
         IN  initSeries([s EXCEPT !.series = Append(@, [name |-> SeriesName(name), values |-> <<>>]),
                                  !.seriesMap = Append(@, <<Len(s.series) + 1>>),
                                  !.validCounts = Append(@, 0)],
                        df, cols, i + 1)

\* The data line of file that starts at byte offset, where f.Seek puts the reader;
\* Len(file.lines) + 1 at the end of the file.
RECURSIVE LineAt(_, _, _, _)
LineAt(file, offset, p, at) ==
    IF p > Len(file.lines) \/ at >= offset THEN p
    ELSE LineAt(file, offset, p + 1, at + file.lines[p].len)

\* extractSeries(cols, start, end, maxPoints) on the DataFile df of the file file.
\* The response and, beside it, the locals step and startRow, the row numbers of
\* the rows kept, the row the scan ended at, whether it ended at the break of a
\* row after end, and for each column asked for the returned series of seriesMap.
extractSeries(df, file, cols, start, end, maxPoints) ==
    LET estimated == estimateRows(df, start, end)
        step == IF maxPoints > 0 /\ estimated > maxPoints
                THEN (IF estimated \div maxPoints < 1 THEN 1 ELSE estimated \div maxPoints)
                ELSE 1
        seek == findOffset(df, start)
        a == [cols |-> cols, start |-> start, end |-> end, step |-> step,
              startRow |-> seek.row]
        s0 == initSeries([row |-> seek.row, kept |-> 0, done |-> FALSE, times |-> <<>>,
                          emitted |-> <<>>, series |-> <<>>, seriesMap |-> <<>>,
                          validCounts |-> <<>>], df, cols, 1)
        s == scanLines(s0, file.lines, LineAt(file, seek.offset, 1, file.header.len), a)
        valid == SelectSeq([i \in 1..Len(s.series) |-> i], LAMBDA i : s.validCounts[i] > 0)
        returnedOf(targets) == SelectSeq(targets, LAMBDA t : s.validCounts[t] > 0)
    IN  [called |-> TRUE, err |-> FALSE,
         cols |-> cols, start |-> start, end |-> end, maxPoints |-> maxPoints,
         times |-> s.times,
         series |-> [k \in 1..Len(valid) |-> s.series[valid[k]]],
         Start |-> IF s.times # <<>> THEN s.times[1] ELSE 0,
         End |-> IF s.times # <<>> THEN s.times[Len(s.times)] ELSE 0,
         rows |-> s.kept,
         step |-> step, startRow |-> seek.row, emitted |-> s.emitted,
         lastRow |-> s.row, stopped |-> s.done,
         homesOf |-> [i \in 1..Len(cols) |->
                         [h \in 1..Len(returnedOf(s.seriesMap[i])) |->
                             s.series[returnedOf(s.seriesMap[i])[h]]]]]

\* /api/series: extractSeries on the indexed file.
ExtractSeries(cols, start, end, maxPoints) ==
    /\ dataFile.built
    /\ ~resp.called
    /\ resp' = extractSeries(dataFile, csvFile, cols, start, end, maxPoints)
    /\ UNCHANGED <<csvFile, dataFile>>
    /\ UNCHANGED <<sessVars, storeVars, diagVars>>

\* /api/series: os.Open(df.Path) fails and extractSeries returns the error.
ExtractSeriesFails ==
    /\ dataFile.built
    /\ ~resp.called
    /\ resp' = [called |-> TRUE, err |-> TRUE]
    /\ UNCHANGED <<csvFile, dataFile>>
    /\ UNCHANGED <<sessVars, storeVars, diagVars>>

\* ---- inputs
\* The files and the requests of the window claims: files of blank lines, rows
\* without a timestamp and rows at the instants, in any order; one column asked for,
\* every window of instants with either bound left out, and a budget of points.
PointBudgets == 0..2
WindowFile(ls) == [header |-> [len |-> 4, columns |-> <<"t", "c1", "c2">>], lines |-> ls]
WindowInit ==
    /\ \E n \in 0..MaxLines : \E ls \in [1..n -> IndexLineKinds] : csvFile = WindowFile(ls)
    /\ dataFile = NoDataFile
    /\ resp = NoResp
    /\ SessIdle
    /\ StoreIdle
    /\ DiagIdle
WindowNext ==
    \/ BuildIndex(ScaledStride)
    \/ \E start \in {NoTime} \cup Instants, end \in {NoTime} \cup Instants, maxPoints \in PointBudgets :
          ExtractSeries(<<1>>, start, end, maxPoints)
    \/ ExtractSeriesFails
WindowSpec == WindowInit /\ [][WindowNext]_vars

\* ---- extractor claims
\* The rows of a file, in order: the lines that buildIndex and extractSeries count.
RowsOf(file) == SelectSeq(file.lines, LAMBDA l : ~l.undecodable)
\* The row numbers of the rows whose timestamp parses and lies in the window.
WindowRows(file, start, end) ==
    {r \in 1..Len(RowsOf(file)) :
        /\ RowsOf(file)[r].ts # NoTime
        /\ start # NoTime => RowsOf(file)[r].ts >= start
        /\ end # NoTime => RowsOf(file)[r].ts <= end}
\* The timestamps that parse are in non-decreasing order.
NonDecreasing(file) ==
    \A q, r \in WindowRows(file, NoTime, NoTime) :
        q <= r => RowsOf(file)[q].ts <= RowsOf(file)[r].ts
Answered == resp.called /\ ~resp.err

\* C16 (as claimed, and only on the files whose timestamps are in non-decreasing
\* order, with a start instant given): the row findOffset returns is not after the
\* first row whose timestamp is at or after start, and at most a stride of rows
\* lies between the two.
C16_SeekBound ==
    (/\ Answered
     /\ NonDecreasing(csvFile)
     /\ resp.start # NoTime
     /\ WindowRows(csvFile, resp.start, NoTime) # {}) =>
        LET first == CHOOSE r \in WindowRows(csvFile, resp.start, NoTime) :
                        \A q \in WindowRows(csvFile, resp.start, NoTime) : r <= q
        IN  /\ resp.startRow <= first
            /\ first - resp.startRow <= ScaledStride

C18_DecimationBudget ==
    (/\ Answered
     /\ resp.maxPoints > 0
     /\ NonDecreasing(csvFile)
     /\ \A r \in 1..Len(RowsOf(csvFile)) : RowsOf(csvFile)[r].ts # NoTime) =>
        LET windowRows == Cardinality(WindowRows(csvFile, resp.start, resp.end))
            ceil == (windowRows + resp.step - 1) \div resp.step
        IN  /\ resp.step >= 1
            /\ resp.rows <= ceil
            /\ ceil <= resp.maxPoints + 1

\* ---- scenario S2
\* The file of the scenarios: the header "Time,a" and five rows, one per second
\* from 15:30:00 (instant 1) to 15:30:04 (instant 5), each with one finite number;
\* it is indexed with indexStride itself.
S2File(cells) ==
    [header |-> [len |-> 7, columns |-> <<"Time", "a">>],
     lines |-> [r \in 1..5 |-> Line(FALSE, r, 23 + Len(cells[r][1]), <<cells[r]>>)]]
S2Init ==
    /\ \E cells \in [1..5 -> {<<"1">>, <<"2">>}] : csvFile = S2File(cells)
    /\ dataFile = NoDataFile
    /\ resp = NoResp
    /\ SessIdle
    /\ StoreIdle
    /\ DiagIdle
S2Next ==
    \/ BuildIndex(indexStride)
    \/ \E start \in 0..5, end \in 0..5, maxPoints \in PointBudgets :
          ExtractSeries(<<1>>, start, end, maxPoints)
    \/ ExtractSeriesFails
S2Spec == S2Init /\ [][S2Next]_vars

\* C19 (as claimed): on the five-row file, extractSeries(cols = [1], start =
\* 15:30:01, end = 15:30:03, maxPoints = 2) returns two or three times, every one
\* of them in the window, every value is finite and the step is at least 1.
C19_ScenarioS2 ==
    (/\ Answered
     /\ resp.cols = <<1>> /\ resp.start = 2 /\ resp.end = 4 /\ resp.maxPoints = 2) =>
        /\ Len(resp.times) \in {2, 3}
        /\ \A k \in 1..Len(resp.times) :
              UnixMilli(resp.start) <= resp.times[k] /\ resp.times[k] <= UnixMilli(resp.end)
        /\ \A i \in 1..Len(resp.series) : \A k \in 1..Len(resp.series[i].values) :
              ~resp.series[i].values[k].nan
        /\ resp.step >= 1

\* ---- series of values
\* Most rows of the files of the series claims.
MaxRows == 3
\* Their rows: row r at instant r, with no cell, one cell or two; the first cell a
\* number, two or three numbers between "/", or text, the second a number or two.
SeriesCells ==
    {<<>>}
    \cup {<<c>> : c \in {<<"1">>, <<"1", "2">>, <<"2", "1", "NaN">>, <<"x">>}}
    \cup {<<c, d>> : c \in {<<"1">>, <<"1", "2">>, <<"2", "1", "NaN">>, <<"x">>},
                     d \in {<<"2">>, <<"2", "1">>}}
\* The header names both columns of cells, or the first one only.
SeriesHeaders == {<<"t", "c1", "c2">>, <<"t", "c1">>}
SeriesFile(columns, cells) ==
    [header |-> [len |-> 4, columns |-> columns],
     lines |-> [r \in 1..Len(cells) |-> Line(FALSE, r, 3, cells[r])]]
\* The columns asked for: one, two, and one with a column no row has.
SeriesCols == {<<1>>, <<1, 2>>, <<2, 5>>}
SeriesInit ==
    /\ \E columns \in SeriesHeaders, n \in 0..MaxRows : \E cells \in [1..n -> SeriesCells] :
          csvFile = SeriesFile(columns, cells)
    /\ dataFile = NoDataFile
    /\ resp = NoResp
    /\ SessIdle
    /\ StoreIdle
    /\ DiagIdle
SeriesNext ==
    \/ BuildIndex(ScaledStride)
    \/ \E cols \in SeriesCols, maxPoints \in PointBudgets :
          ExtractSeries(cols, NoTime, NoTime, maxPoints)
    \/ ExtractSeriesFails
SeriesSpec == SeriesInit /\ [][SeriesNext]_vars

\* C20: every series of the response has as many values as the response has times.
C20_ValuesMatchTimes ==
    Answered =>
        \A i \in 1..Len(resp.series) : Len(resp.series[i].values) = Len(resp.times)
\* C20 happens: two columns were asked for, a row lacks the second one, and a
\* "[home 2]" series that came into being at a later kept row (its first slot is
\* the zero it was made with) is returned.
C20_Witness ==
    /\ Answered
    /\ resp.cols = <<1, 2>>
    /\ Len(resp.times) >= 2
    /\ \E r \in 1..Len(csvFile.lines) : r \in {resp.emitted[k] : k \in 1..Len(resp.emitted)}
                                        /\ Len(csvFile.lines[r].cells) < 2
    /\ \E i \in 1..Len(resp.series) :
          /\ resp.series[i].name.homes = <<2>>
          /\ resp.series[i].values[1] = Num(0)
          /\ resp.series[i].values[Len(resp.times)] # Num(0)

\* C21 (as claimed): a cell that holds NaN is treated like a cell that holds no
\* number: its slot keeps the zero, so no value of a returned series is NaN, and
\* every returned series has a slot that a finite number of a cell was written to.
C21_NaNLikeNonNumeric ==
    Answered =>
        \A i \in 1..Len(resp.series) :
            /\ \A k \in 1..Len(resp.series[i].values) : ~resp.series[i].values[k].nan
            /\ \E k \in 1..Len(resp.series[i].values) : resp.series[i].values[k] # Num(0)

\* The number of "/"-separated numbers the cells of column idx hold in every kept
\* row, when that is the same number, two or more, in all of them; 0 otherwise.
UniformHomes(idx) ==
    LET kept == {resp.emitted[j] : j \in 1..Len(resp.emitted)}
        cell(r) == Record(RowsOf(csvFile)[r])[idx + 1]
        ks == {k \in 2..3 : \A r \in kept :
                  /\ idx >= 0 /\ idx < Len(Record(RowsOf(csvFile)[r]))
                  /\ parseDelimitedFloatValues(cell(r)).ok
                  /\ Len(cell(r)) = k}
    IN  IF kept # {} /\ ks # {} THEN CHOOSE k \in ks : TRUE ELSE 0

\* C22 (as claimed): for a column asked for whose cells are k numbers between "/"
\* in every kept row, k >= 2, exactly k series are returned for it, the i-th named
\* "<column> [home i]", as long as times, and holding at slot j the i-th number of
\* the j-th kept row.
C22_MultiHome ==
    Answered =>
        \A c \in 1..Len(resp.cols) :
            LET idx == resp.cols[c]
                k == UniformHomes(idx)
                column == IF idx >= 0 /\ idx < Len(dataFile.columns)
                          THEN dataFile.columns[idx + 1] ELSE ""
            IN  k >= 2 =>
                  /\ Len(resp.homesOf[c]) = k
                  /\ \A i \in 1..Len(resp.homesOf[c]) :
                        /\ resp.homesOf[c][i].name = withHome(SeriesName(column), i)
                        /\ Len(resp.homesOf[c][i].values) = Len(resp.times)
                        /\ \A j \in 1..Len(resp.times) :
                              resp.homesOf[c][i].values[j]
                                = ParseFloat(Record(RowsOf(csvFile)[resp.emitted[j]])[idx + 1][i]).v

\* ============================================================ diagnostics
\* NumberFinite(v)
NumberFinite(v) == ~v.nan

\* thresholdEntityState as make([]thresholdEntityState, n) leaves it.
NoStreak ==
    [currLen |-> 0, currStart |-> NoTime, currPeak |-> Num(0),
     bestLen |-> 0, bestStart |-> NoTime, bestEnd |-> NoTime, bestPeak |-> Num(0)]

\* thresholdProcessor.reset without "s.bestEnd = ts".
thresholdResetNoEnd(s, ts) ==
    LET s1 == IF s.currLen > s.bestLen
              THEN [s EXCEPT !.bestLen = s.currLen, !.bestStart = s.currStart,
                             !.bestPeak = s.currPeak]
              ELSE s
    IN  [s1 EXCEPT !.currLen = 0, !.currPeak = Num(0)]

\* thresholdProcessor.reset(i, ts) on the state s of entity i.
thresholdReset(s, ts) ==
    LET s1 == IF s.currLen > s.bestLen
              THEN [s EXCEPT !.bestLen = s.currLen, !.bestStart = s.currStart,
                             !.bestEnd = ts, !.bestPeak = s.currPeak]
              ELSE s
    IN  [s1 EXCEPT !.currLen = 0, !.currPeak = Num(0)]

\* thresholdProcessor.onRow: the body of its loop for the entity of column idx.
thresholdOnCell(p, s, idx, ts, record) ==
    IF idx < 0 \/ idx >= Len(record) THEN s
    ELSE LET parsed == parseFloatValue(record[idx + 1])
             v == parsed.v
             matched == IF p.compareLess THEN v.v < p.threshold ELSE v.v > p.threshold
         IN  IF ~parsed.ok \/ ~NumberFinite(v) THEN thresholdReset(s, ts)
             ELSE IF matched
             THEN [s EXCEPT !.currStart = IF s.currLen = 0 THEN ts ELSE @,
                            !.currPeak = IF s.currLen = 0 THEN v
                                         ELSE IF \/ ~p.compareLess /\ v.v > s.currPeak.v
                                                 \/ p.compareLess /\ v.v < s.currPeak.v
                                         THEN v ELSE @,
                            !.currLen = @ + 1]
             ELSE thresholdReset(s, ts)

\* thresholdProcessor.onRow(ts, record)
RECURSIVE thresholdOnRow(_, _, _, _)
thresholdOnRow(p, i, ts, record) ==
    IF i > Len(p.indexes) THEN p
    ELSE thresholdOnRow(
             [p EXCEPT !.states[i] = thresholdOnCell(p, p.states[i], p.indexes[i], ts, record)],
             i + 1, ts, record)

\* thresholdProcessor.finalize: the open streaks are closed with the zero time.
RECURSIVE thresholdResetAll(_, _)
thresholdResetAll(p, i) ==
    IF i > Len(p.states) THEN p
    ELSE thresholdResetAll([p EXCEPT !.states[i] = thresholdReset(p.states[i], NoTime)], i + 1)

\* thresholdProcessor.finalize: the finding of entity i, with the numbers Sprintf
\* writes into its summary.
thresholdFinding(p, i) ==
    [templateID |-> p.template.id, title |-> p.template.name, severity |-> p.template.severity,
     instances |-> <<p.labels[i]>>,
     summary |-> [peak |-> p.states[i].bestPeak, threshold |-> p.threshold,
                  samples |-> p.states[i].bestLen],
     start |-> IF p.states[i].bestStart # NoTime THEN UnixMilli(p.states[i].bestStart) ELSE 0,
     end |-> IF p.states[i].bestEnd # NoTime THEN UnixMilli(p.states[i].bestEnd) ELSE 0]

RECURSIVE thresholdFindings(_, _)
thresholdFindings(p, i) ==
    IF i > Len(p.states) THEN <<>>
    ELSE (IF p.states[i].bestLen < p.minConsecutive THEN <<>> ELSE <<thresholdFinding(p, i)>>)
         \o thresholdFindings(p, i + 1)

\* thresholdProcessor.finalize(): the processor after it and the findings, of which
\* the first twenty are returned.
thresholdFinalize(p) ==
    LET q == thresholdResetAll(p, 1)
        all == thresholdFindings(q, 1)
    IN  [q EXCEPT !.finalized = TRUE,
                  !.findings = IF Len(all) > 20 THEN SubSeq(all, 1, 20) ELSE all]

\* ---- inputs
\* Most rows a processor is given.
MaxFed == 4
\* The template of the processor under test.
TestTemplate == [id |-> "t1", name |-> "T", severity |-> "high"]
\* Thresholds with two values beyond them: above 1, and below 3.
ThresholdProcessors ==
    {[built |-> TRUE, template |-> TestTemplate, compareLess |-> c.less, threshold |-> c.threshold,
      minConsecutive |-> m, indexes |-> <<1>>, labels |-> <<"vm">>,
      states |-> <<NoStreak>>, finalized |-> FALSE, findings |-> <<>>] :
        c \in {[less |-> FALSE, threshold |-> 1], [less |-> TRUE, threshold |-> 3]},
        m \in 1..2}
\* The records of the rows: the timestamp field alone, or with a cell that holds a
\* number, NaN or text.
DiagRecords ==
    {<< <<"ts">> >>} \cup {<< <<"ts">>, <<c>> >> : c \in {"1", "2", "3", "NaN", "x"}}

\* runDiagnostics gives the processor the next row; row n is at instant n.
ThrOnRow(record) ==
    /\ thr.built /\ ~thr.finalized
    /\ Len(fed) < MaxFed
    /\ thr' = thresholdOnRow(thr, 1, Len(fed) + 1, record)
    /\ fed' = Append(fed, [ts |-> Len(fed) + 1, record |-> record])
    /\ UNCHANGED <<zig, rng, diag, scan>>
    /\ UNCHANGED <<sessVars, storeVars, csvVars>>

\* runDiagnostics calls finalize after the last row.
ThrFinalize ==
    /\ thr.built /\ ~thr.finalized
    /\ thr' = thresholdFinalize(thr)
    /\ UNCHANGED <<zig, rng, fed, diag, scan>>
    /\ UNCHANGED <<sessVars, storeVars, csvVars>>

ThresholdInit ==
    /\ thr \in ThresholdProcessors
    /\ zig = NoProc /\ rng = NoProc /\ fed = <<>> /\ diag = NoDiag /\ scan = NoScan
    /\ SessIdle
    /\ StoreIdle
    /\ CsvIdle
ThresholdNext ==
    \/ \E record \in DiagRecords : ThrOnRow(record)
    \/ ThrFinalize
ThresholdSpec == ThresholdInit /\ [][ThresholdNext]_vars

\* ---- threshold claims
\* The row n given to the processor passes: its cell is there, finite and beyond
\* the threshold.
Passes(n) ==
    /\ Len(fed[n].record) > 1
    /\ parseFloatValue(fed[n].record[2]).ok
    /\ NumberFinite(parseFloatValue(fed[n].record[2]).v)
    /\ IF thr.compareLess THEN parseFloatValue(fed[n].record[2]).v.v < thr.threshold
       ELSE parseFloatValue(fed[n].record[2]).v.v > thr.threshold
\* The maximal runs of consecutive rows that pass, each as <<first, last>>.
Runs ==
    {r \in (1..Len(fed)) \X (1..Len(fed)) :
        /\ r[1] <= r[2]
        /\ \A n \in r[1]..r[2] : Passes(n)
        /\ r[1] = 1 \/ ~Passes(r[1] - 1)
        /\ r[2] = Len(fed) \/ ~Passes(r[2] + 1)}
\* The longest of them.
LongestRuns == {r \in Runs : \A q \in Runs : q[2] - q[1] <= r[2] - r[1]}
\* The extreme value of the cells of a run: the highest, or the lowest when the
\* comparison is less.
PeakOf(r) ==
    CHOOSE v \in {parseFloatValue(fed[n].record[2]).v.v : n \in r[1]..r[2]} :
        \A w \in {parseFloatValue(fed[n].record[2]).v.v : n \in r[1]..r[2]} :
            IF thr.compareLess THEN v <= w ELSE v >= w

\* C23 (as claimed): after finalize the best streak is a longest maximal run of
\* consecutive rows whose cell is finite and beyond the threshold: its length, the
\* timestamp of its first row as start and its extreme value as peak; it is empty
\* when no row passes.
C23_BestStreakIsLongestRun ==
    (thr.built /\ thr.finalized) =>
        IF Runs = {} THEN thr.states[1].bestLen = 0
        ELSE \E r \in LongestRuns :
                /\ thr.states[1].bestLen = r[2] - r[1] + 1
                /\ thr.states[1].bestStart = fed[r[1]].ts
                /\ thr.states[1].bestPeak = Num(PeakOf(r))

\* C24 (as claimed, on rows that all have the cell): when the best streak, the
\* first of the longest runs, is followed by a row that fails, the finding of the
\* instance starts at the timestamp of the streak's first row, ends at the
\* timestamp of its last passing row, and its summary reports the streak's peak.
C24_FindingSpansStreak ==
    (/\ thr.built /\ thr.finalized
     /\ \A n \in 1..Len(fed) : Len(fed[n].record) > 1
     /\ thr.findings # <<>>) =>
        LET r == CHOOSE q \in LongestRuns : \A o \in LongestRuns : q[1] <= o[1]
        IN  r[2] < Len(fed) =>
              /\ Len(thr.findings) = 1
              /\ thr.findings[1].start = UnixMilli(fed[r[1]].ts)
              /\ thr.findings[1].end = UnixMilli(fed[r[2]].ts)
              /\ thr.findings[1].summary.peak = Num(PeakOf(r))
              /\ thr.findings[1].summary.samples = r[2] - r[1] + 1

\* ---- dominance switches
\* -math.MaxFloat64, below every value of a cell.
NegMaxFloat == -1000000

\* numaZigzagProcessor.onRow: the loop over p.indexes from i on; b holds bestVal,
\* secondVal, bestIdx (0-based, -1 for none) and valid.
RECURSIVE zigzagScan(_, _, _, _)
zigzagScan(p, b, i, record) ==
    IF i > Len(p.indexes) THEN b
    ELSE LET idx == p.indexes[i]
             parsed == parseFloatValue(record[idx + 1])
             v == parsed.v.v
         IN  IF idx < 0 \/ idx >= Len(record) THEN zigzagScan(p, b, i + 1, record)
             ELSE IF ~parsed.ok \/ ~NumberFinite(parsed.v) THEN zigzagScan(p, b, i + 1, record)
             ELSE IF v > b.bestVal
             THEN zigzagScan(p, [bestVal |-> v, secondVal |-> b.bestVal, bestIdx |-> i - 1,
                                 valid |-> b.valid + 1], i + 1, record)
             ELSE IF v > b.secondVal
             THEN zigzagScan(p, [b EXCEPT !.secondVal = v, !.valid = @ + 1], i + 1, record)
             ELSE zigzagScan(p, [b EXCEPT !.valid = @ + 1], i + 1, record)

\* onRow with prevDominant taken for column 0 before the first qualifying row.
zigzagOnRowFromZero(p, ts, record) ==
    LET b == zigzagScan(p, [bestVal |-> NegMaxFloat, secondVal |-> NegMaxFloat,
                            bestIdx |-> -1, valid |-> 0], 1, record)
        switched == b.bestIdx # (IF p.prevDominant < 0 THEN 0 ELSE p.prevDominant)
    IN  IF b.valid < 2 \/ b.bestIdx < 0 THEN p
        ELSE IF b.bestVal - b.secondVal < p.minGap THEN p
        ELSE [p EXCEPT !.observations = @ + 1,
                       !.switches = IF switched THEN @ + 1 ELSE @,
                       !.firstSwitch = IF switched /\ @ = NoTime THEN ts ELSE @,
                       !.lastSwitch = IF switched THEN ts ELSE @,
                       !.prevDominant = b.bestIdx]

\* onRow with prevDominant set before the tests that let a row count.
zigzagOnRowEarlyPrev(p, ts, record) ==
    LET b == zigzagScan(p, [bestVal |-> NegMaxFloat, secondVal |-> NegMaxFloat,
                            bestIdx |-> -1, valid |-> 0], 1, record)
        switched == p.prevDominant >= 0 /\ b.bestIdx # p.prevDominant
    IN  IF b.valid < 2 \/ b.bestIdx < 0 THEN p
        ELSE IF b.bestVal - b.secondVal < p.minGap THEN [p EXCEPT !.prevDominant = b.bestIdx]
        ELSE [p EXCEPT !.observations = @ + 1,
                       !.switches = IF switched THEN @ + 1 ELSE @,
                       !.firstSwitch = IF switched /\ @ = NoTime THEN ts ELSE @,
                       !.lastSwitch = IF switched THEN ts ELSE @,
                       !.prevDominant = b.bestIdx]

\* numaZigzagProcessor.onRow(ts, record)
zigzagOnRow(p, ts, record) ==
    LET b == zigzagScan(p, [bestVal |-> NegMaxFloat, secondVal |-> NegMaxFloat,
                            bestIdx |-> -1, valid |-> 0], 1, record)
        switched == p.prevDominant >= 0 /\ b.bestIdx # p.prevDominant
    IN  IF b.valid < 2 \/ b.bestIdx < 0 THEN p
        ELSE IF b.bestVal - b.secondVal < p.minGap THEN p
        ELSE [p EXCEPT !.observations = @ + 1,
                       !.switches = IF switched THEN @ + 1 ELSE @,
                       !.firstSwitch = IF switched /\ @ = NoTime THEN ts ELSE @,
                       !.lastSwitch = IF switched THEN ts ELSE @,
                       !.prevDominant = b.bestIdx]

\* numaZigzagProcessor.finalize()
zigzagFinalize(p) ==
    [p EXCEPT !.finalized = TRUE,
              !.findings =
                  IF p.switches < p.minSwitches \/ p.observations < p.minSwitches + 1 THEN <<>>
                  ELSE << [templateID |-> p.template.id, title |-> p.template.name,
                           severity |-> p.template.severity,
                           summary |-> [switches |-> p.switches, samples |-> p.observations],
                           start |-> UnixMilli(p.firstSwitch),
                           end |-> UnixMilli(p.lastSwitch)] >>]

\* ---- inputs
\* Most rows the dominance processor is given.
MaxZigRows == 3
\* The processor of three columns, as buildProcessors makes it, with minSwitches
\* and minGap both 1 or both 2.
ZigzagProcessors ==
    {[built |-> TRUE, template |-> TestTemplate, indexes |-> <<1, 2, 3>>,
      labels |-> <<"n0", "n1", "n2">>, minSwitches |-> m, minGap |-> m,
      switches |-> 0, firstSwitch |-> NoTime, lastSwitch |-> NoTime,
      prevDominant |-> -1, observations |-> 0,
      finalized |-> FALSE, findings |-> <<>>] : m \in 1..2}
\* The records of its rows: no cell, one, two or three, with numbers, NaN and text.
ZigRecords ==
    {<< <<"ts">> >>}
    \cup {<< <<"ts">>, <<c>> >> : c \in {"1", "3", "NaN"}}
    \cup {<< <<"ts">>, <<c>>, <<d>> >> : c \in {"1", "3", "NaN"}, d \in {"2", "x"}}
    \cup {<< <<"ts">>, <<"1">>, <<"2">>, <<"3">> >>, << <<"ts">>, <<"3">>, <<"x">>, <<"1">> >>,
          << <<"ts">>, <<"1">>, <<"x">>, <<"3">> >>, << <<"ts">>, <<"2">>, <<"3">>, <<"3">> >>}

ZigOnRow(record) ==
    /\ zig.built /\ ~zig.finalized
    /\ Len(fed) < MaxZigRows
    /\ zig' = zigzagOnRow(zig, Len(fed) + 1, record)
    /\ fed' = Append(fed, [ts |-> Len(fed) + 1, record |-> record])
    /\ UNCHANGED <<thr, rng, diag, scan>>
    /\ UNCHANGED <<sessVars, storeVars, csvVars>>

ZigFinalize ==
    /\ zig.built /\ ~zig.finalized
    /\ zig' = zigzagFinalize(zig)
    /\ UNCHANGED <<thr, rng, fed, diag, scan>>
    /\ UNCHANGED <<sessVars, storeVars, csvVars>>

ZigzagInit ==
    /\ zig \in ZigzagProcessors
    /\ thr = NoProc /\ rng = NoProc /\ fed = <<>> /\ diag = NoDiag /\ scan = NoScan
    /\ SessIdle
    /\ StoreIdle
    /\ CsvIdle
ZigzagNext ==
    \/ \E record \in ZigRecords : ZigOnRow(record)
    \/ ZigFinalize
ZigzagSpec == ZigzagInit /\ [][ZigzagNext]_vars

\* ---- dominance claims
\* The finite values of the row n, as pairs <<column, value>>.
FiniteCells(n) ==
    {<<i, parseFloatValue(fed[n].record[zig.indexes[i] + 1]).v.v>> :
        i \in {j \in 1..Len(zig.indexes) :
                 /\ zig.indexes[j] < Len(fed[n].record)
                 /\ parseFloatValue(fed[n].record[zig.indexes[j] + 1]).ok
                 /\ NumberFinite(parseFloatValue(fed[n].record[zig.indexes[j] + 1]).v)}}
\* The columns that hold the highest value of row n.
TopCells(n) == {c \in FiniteCells(n) : \A d \in FiniteCells(n) : d[2] <= c[2]}
\* Row n qualifies: two finite values or more, and the highest is minGap or more
\* above the second-highest.
Qualifies(n) ==
    /\ Cardinality(FiniteCells(n)) >= 2
    /\ Cardinality(TopCells(n)) = 1
    /\ \A c \in TopCells(n) : \A d \in FiniteCells(n) \ TopCells(n) : c[2] - d[2] >= zig.minGap
\* The column that dominates a qualifying row.
Dominant(n) == (CHOOSE c \in TopCells(n) : TRUE)[1]
Qualifying == {n \in 1..Len(fed) : Qualifies(n)}
\* The qualifying rows whose dominant column is not that of the qualifying row
\* before them.
Switches ==
    LET Q == Qualifying
    IN  {n \in Q : \E m \in Q :
            /\ m < n
            /\ \A o \in Q : ~(m < o /\ o < n)
            /\ Dominant(m) # Dominant(n)}

\* C25: the processor's switches and observations are the numbers of switching
\* and of qualifying rows among the rows it was given, and finalize emits one
\* finding when switches >= minSwitches and observations >= minSwitches + 1, and
\* none otherwise.
C25_DominanceSwitches ==
    zig.built =>
        LET switches == Cardinality(Switches)
            qualifying == Cardinality(Qualifying)
        IN  /\ zig.switches = switches
            /\ zig.observations = qualifying
            /\ zig.finalized =>
                  Len(zig.findings) =
                      IF switches >= zig.minSwitches /\ qualifying >= zig.minSwitches + 1
                      THEN 1 ELSE 0
\* C25 happens: after a row that did not qualify between two qualifying rows of
\* different dominant columns, finalize has emitted the finding.
C25_Witness ==
    /\ zig.built /\ zig.finalized
    /\ Len(zig.findings) = 1
    /\ Switches # {}
    /\ \E n \in 1..Len(fed) : ~Qualifies(n) /\ \E m \in Qualifying : m < n

\* ---- order of the findings
\* strings.ToLower on the severities of the templates.
LowerSeverity(sev) ==
    CASE sev = "High" -> "high"
      [] sev = "Critical" -> "critical"
      [] OTHER -> sev
\* order := map[string]int{"critical": 0, "high": 1, "medium": 2, "low": 3}; a key
\* the map does not hold reads as 0.
order(sev) ==
    CASE sev = "critical" -> 0
      [] sev = "high" -> 1
      [] sev = "medium" -> 2
      [] sev = "low" -> 3
      [] OTHER -> 0
\* The less function runDiagnostics gives to sort.Slice.
findingLess(a, b) ==
    IF a.severity # b.severity
    THEN order(LowerSeverity(a.severity)) < order(LowerSeverity(b.severity))
    ELSE StrLess(a.title, b.title)

\* sort.Slice on fewer than 13 elements is an insertion sort: data[i] is swapped
\* down while it is less than the element before it.
RECURSIVE sinkFinding(_, _)
sinkFinding(data, j) ==
    IF j > 1 /\ findingLess(data[j], data[j - 1])
    THEN sinkFinding([data EXCEPT ![j] = data[j - 1], ![j - 1] = data[j]], j - 1)
    ELSE data
RECURSIVE sortFindings(_, _)
sortFindings(data, i) ==
    IF i > Len(data) THEN data ELSE sortFindings(sinkFinding(data, i), i + 1)

\* ---- inputs
\* Most findings of a run.
MaxFindings == 3
\* The findings the processors return from finalize: severity and title are those
\* of the template, which keeps the severity as its JSON spells it.
FindingKinds ==
    {[severity |-> sev, title |-> title] :
        sev \in {"critical", "high", "High", "low"}, title \in {<<"b">>, <<"b", "c">>}}

\* runDiagnostics after the scan: the findings of the processors, flattened in the
\* order of the processors, are sorted.
RunDiagnostics(findings) ==
    /\ ~diag.called
    /\ diag' = [called |-> TRUE, flattened |-> findings, findings |-> sortFindings(findings, 2)]
    /\ UNCHANGED <<thr, zig, rng, fed, scan>>
    /\ UNCHANGED <<sessVars, storeVars, csvVars>>

RunInit ==
    /\ DiagIdle
    /\ SessIdle
    /\ StoreIdle
    /\ CsvIdle
RunNext ==
    \E n \in 0..MaxFindings : \E findings \in [1..n -> FindingKinds] : RunDiagnostics(findings)
RunSpec == RunInit /\ [][RunNext]_vars

\* C26 (as claimed): in the findings returned, a finding of a higher severity rank
\* is never after one of a lower rank, and of two findings of the same severity
\* the one with the lesser title is never after the other.
C26_FindingsOrdered ==
    diag.called =>
        \A i, j \in 1..Len(diag.findings) :
            i < j =>
                /\ order(LowerSeverity(diag.findings[i].severity))
                     <= order(LowerSeverity(diag.findings[j].severity))
                /\ diag.findings[i].severity = diag.findings[j].severity =>
                     ~StrLess(diag.findings[j].title, diag.findings[i].title)

\* ---- failed ingest
\* This step is the start of an upload or open-URL by goroutine t, or its failure.
IngestStartStep(t) == pc[t] = "idle" /\ pc'[t] = "ingest"
IngestFailStep(t) == pc[t] = "ingest" /\ pc'[t] = "idle"

\* C27: every step of an upload or open-URL that fails in indexUploadedOrFetchedCSV
\* leaves the registry, every session's DataFile and the default file as they were,
\* and the failure removes from disk the temp file of that ingest and nothing else.
C27_FailedIngestIsLocal ==
    [][\A t \in Threads :
        /\ (IngestStartStep(t) \/ IngestFailStep(t)) =>
               /\ registry' = registry
               /\ sess' = sess
               /\ defaultDF' = defaultDF
        /\ IngestFailStep(t) =>
               /\ localDF[t].path \notin disk'
               /\ disk' = disk \ {localDF[t].path}
               /\ removeCalls' = removeCalls
      ]_vars

\* C27 witness: a temp file was created for an ingest that failed (it was never
\* installed and is gone) while a registered session holds a DataFile.
C27_Witness ==
    /\ \E p \in DOMAIN installed :
          /\ installed[p] = 0
          /\ p \notin disk
          /\ \A t \in Threads : localDF[t].nil \/ localDF[t].path # p
    /\ \E o \in DOMAIN sess : Registered(o) /\ ~sess[o].df.nil

\* ------------------------------------------------- the scan loops, line by line
\* Each of buildIndex, extractSeries and runDiagnostics reads the file with
\* reader.ReadBytes('\n') in a "for" loop; one step below is one pass of that loop.
\* scan.pos is the next data line the reader returns and Len(lines) + 1 is the end
\* of the file, where ReadBytes returns no byte and io.EOF.

\* A row whose first field is no timestamp of timeLayouts but a decimal integer,
\* which runDiagnostics alone reads as Unix milliseconds.
UnixMsLine(ms) ==
    [undecodable |-> FALSE, ts |-> NoTime, len |-> 2, cells |-> << <<"1">> >>, unixMs |-> ms]
IsUnixMs(line) == "unixMs" \in DOMAIN line

\* buildIndex: one pass of its loop.
indexScanStep(sc, file, stride) ==
    IF sc.pos > Len(file.lines)
    THEN [sc EXCEPT !.returned = TRUE]
    ELSE [sc EXCEPT !.st = indexLine(sc.st, file.lines[sc.pos], stride), !.pos = sc.pos + 1]

\* extractSeries: one pass of its loop; the step that reads the first row after end
\* breaks out of the loop.
extractScanStep(sc, file) ==
    IF sc.pos > Len(file.lines)
    THEN [sc EXCEPT !.returned = TRUE]
    ELSE LET s == scanLine(sc.st, file.lines[sc.pos], sc.a)
         IN  [sc EXCEPT !.st = s, !.pos = sc.pos + 1, !.returned = s.done]

\* runDiagnostics: "for _, p := range processors { p.onRow(ts, record) }" from
\* processor i on; calls holds, for each processor, the rows it was given.
RECURSIVE onRowAll(_, _, _)
onRowAll(calls, i, row) ==
    IF i > Len(calls) THEN <<>>
    ELSE <<Append(calls[i], row)>> \o onRowAll(calls, i + 1, row)
\* runDiagnostics: "for _, p := range processors { ... p.finalize() ... }".
RECURSIVE finalizeAll(_, _)
finalizeAll(finalized, i) ==
    IF i > Len(finalized) THEN <<>>
    ELSE <<finalized[i] + 1>> \o finalizeAll(finalized, i + 1)
\* The row runDiagnostics makes of a line: its place in the file and its timestamp
\* in milliseconds, from a layout or from the integer.
DiagRow(line, pos) ==
    [pos |-> pos, ts |-> IF line.ts # NoTime THEN UnixMilli(line.ts) ELSE line.unixMs]
\* runDiagnostics after the loop: every processor is finalized and the call returns.
diagReturn(sc) ==
    [loop |-> sc.loop, pos |-> sc.pos, returned |-> TRUE,
     st |-> [rows |-> sc.st.rows, calls |-> sc.st.calls,
             finalized |-> finalizeAll(sc.st.finalized, 1)]]
\* runDiagnostics: a row is counted and given to every processor.
diagOnRow(sc, line) ==
    [loop |-> sc.loop, pos |-> sc.pos + 1, returned |-> FALSE,
     st |-> [rows |-> sc.st.rows + 1,
             calls |-> onRowAll(sc.st.calls, 1, DiagRow(line, sc.pos)),
             finalized |-> sc.st.finalized]]
\* runDiagnostics: a line is skipped.
diagSkip(sc) ==
    [loop |-> sc.loop, pos |-> sc.pos + 1, returned |-> FALSE, st |-> sc.st]

\* runDiagnostics with a "continue" that reads no further line.
diagScanStepStuck(sc, file) ==
    IF sc.pos > Len(file.lines) THEN diagReturn(sc)
    ELSE LET line == file.lines[sc.pos] IN
         IF line.undecodable \/ (line.ts = NoTime /\ ~IsUnixMs(line))
         THEN sc
         ELSE diagOnRow(sc, line)

\* runDiagnostics without the strconv.ParseInt fallback.
diagScanStepNoFallback(sc, file) ==
    IF sc.pos > Len(file.lines) THEN diagReturn(sc)
    ELSE LET line == file.lines[sc.pos] IN
         IF line.undecodable \/ line.ts = NoTime
         THEN diagSkip(sc)
         ELSE diagOnRow(sc, line)

\* runDiagnostics: one pass of its loop; the pass that finds the end of the file
\* goes on to finalize and returns.
diagScanStep(sc, file) ==
    IF sc.pos > Len(file.lines) THEN diagReturn(sc)
    ELSE LET line == file.lines[sc.pos] IN
         IF line.undecodable \/ (line.ts = NoTime /\ ~IsUnixMs(line))
         THEN diagSkip(sc)
         ELSE diagOnRow(sc, line)

ScanRunning == scan.loop # "none" /\ ~scan.returned
ScanReturned == scan.loop # "none" /\ scan.returned

\* buildIndex has read the header line and enters its loop.
StartIndexScan ==
    /\ scan = NoScan
    /\ ~dataFile.built
    /\ csvFile.header.len # 0 /\ csvFile.header.columns # <<>>
    /\ scan' = [loop |-> "index", pos |-> 1, returned |-> FALSE,
                st |-> [row |-> 0, offset |-> csvFile.header.len,
                        startTime |-> NoTime, endTime |-> NoTime, index |-> <<>>]]
    /\ UNCHANGED <<thr, zig, rng, fed, diag>>
    /\ UNCHANGED <<sessVars, storeVars, csvVars>>

\* buildIndex: a pass of the loop; after the last one it returns the DataFile.
IndexScanStep ==
    /\ scan.loop = "index" /\ ~scan.returned
    /\ scan' = indexScanStep(scan, csvFile, ScaledStride)
    /\ dataFile' = IF scan'.returned
                   THEN [built |-> TRUE, err |-> FALSE,
                         columns |-> [csvFile.header.columns EXCEPT ![1] = "Time"],
                         dataStartOffset |-> csvFile.header.len,
                         index |-> scan.st.index,
                         rows |-> scan.st.row,
                         startTime |-> scan.st.startTime,
                         endTime |-> scan.st.endTime]
                   ELSE dataFile
    /\ UNCHANGED <<csvFile, resp>>
    /\ UNCHANGED <<thr, zig, rng, fed, diag>>
    /\ UNCHANGED <<sessVars, storeVars>>

\* extractSeries has made its series, sought to the offset of findOffset(start) and
\* enters its loop.
StartExtractScan(cols, start, end) ==
    /\ scan.loop = "index" /\ scan.returned
    /\ dataFile.built
    /\ LET seek == findOffset(dataFile, start) IN
       scan' = [loop |-> "extract", returned |-> FALSE,
                pos |-> LineAt(csvFile, seek.offset, 1, csvFile.header.len),
                a |-> [cols |-> cols, start |-> start, end |-> end, step |-> 1,
                       startRow |-> seek.row],
                st |-> initSeries([row |-> seek.row, kept |-> 0, done |-> FALSE,
                                   times |-> <<>>, emitted |-> <<>>, series |-> <<>>,
                                   seriesMap |-> <<>>, validCounts |-> <<>>],
                                  dataFile, cols, 1)]
    /\ UNCHANGED <<thr, zig, rng, fed, diag>>
    /\ UNCHANGED <<sessVars, storeVars, csvVars>>

\* extractSeries: a pass of the loop.
ExtractScanStep ==
    /\ scan.loop = "extract" /\ ~scan.returned
    /\ scan' = extractScanStep(scan, csvFile)
    /\ UNCHANGED <<thr, zig, rng, fed, diag>>
    /\ UNCHANGED <<sessVars, storeVars, csvVars>>

\* runDiagnostics has built its n processors, read the header line and enters its
\* loop.
StartDiagScan(n) ==
    /\ scan.loop = "index" /\ scan.returned
    /\ dataFile.built
    /\ scan' = [loop |-> "diag", pos |-> 1, returned |-> FALSE,
                st |-> [rows |-> 0, calls |-> [i \in 1..n |-> <<>>],
                        finalized |-> [i \in 1..n |-> 0]]]
    /\ UNCHANGED <<thr, zig, rng, fed, diag>>
    /\ UNCHANGED <<sessVars, storeVars, csvVars>>

\* runDiagnostics: a pass of the loop.
DiagScanStep ==
    /\ scan.loop = "diag" /\ ~scan.returned
    /\ scan' = diagScanStep(scan, csvFile)
    /\ UNCHANGED <<thr, zig, rng, fed, diag>>
    /\ UNCHANGED <<sessVars, storeVars, csvVars>>

\* ---- inputs
\* Most data lines of a file that is scanned line by line.
MaxScanLines == 3
\* Most processors of a diagnostics run.
MaxProcessors == 2
\* Blank lines, rows without a timestamp, a row whose first field is a count of
\* milliseconds, and rows at two instants, the later one with a cell that is no
\* number.
ScanLineKinds ==
    {BlankLine, Line(FALSE, NoTime, 2, << <<"x">> >>), UnixMsLine(1500)}
    \cup {Line(FALSE, 1, 3, << <<"1">> >>), Line(FALSE, 2, 3, << <<"x">> >>)}
ScanWindows == {NoTime, 1, 2}

ScanInit ==
    /\ \E n \in 0..MaxScanLines : \E ls \in [1..n -> ScanLineKinds] : csvFile = WindowFile(ls)
    /\ dataFile = NoDataFile
    /\ resp = NoResp
    /\ SessIdle
    /\ StoreIdle
    /\ DiagIdle
ScanStep == IndexScanStep \/ ExtractScanStep \/ DiagScanStep
ScanNext ==
    \/ StartIndexScan
    \/ IndexScanStep
    \/ \E start \in ScanWindows, end \in ScanWindows : StartExtractScan(<<1>>, start, end)
    \/ ExtractScanStep
    \/ \E n \in 1..MaxProcessors : StartDiagScan(n)
    \/ DiagScanStep
\* The goroutine that runs a loop is scheduled again and again.
ScanSpec == ScanInit /\ [][ScanNext]_vars /\ WF_vars(ScanStep)

\* ---- scan claims
\* C28: a scan that was started returns; every pass of a loop reads exactly one
\* line or returns; a line that does not decode, a row without a timestamp and a
\* row with a cell that is no number never end a scan before the end of the file
\* (only the first row after end ends extractSeries); and what the scans have
\* when they return is what buildIndex and extractSeries return for the file.
C28_ScansTerminate ==
    /\ ScanRunning ~> ScanReturned
    /\ [][ScanStep =>
            /\ scan'.pos = scan.pos + 1 \/ scan'.returned
            /\ scan'.returned =>
                  \/ scan.pos > Len(csvFile.lines)
                  \/ /\ scan.loop = "extract"
                     /\ scan.a.end # NoTime
                     /\ csvFile.lines[scan.pos].ts > scan.a.end
       ]_vars
    /\ [](ScanReturned /\ scan.loop = "index" =>
            dataFile = buildIndex(csvFile, ScaledStride))
    /\ [](ScanReturned /\ scan.loop = "extract" =>
            LET r == extractSeries(dataFile, csvFile, scan.a.cols, scan.a.start, scan.a.end, 0)
            IN  r.times = scan.st.times /\ r.lastRow = scan.st.row /\ ~r.err)

\* C28 witness: runDiagnostics returned after a line that does not decode, a row
\* without a timestamp and a row it gave to the processors.
C28_Witness ==
    /\ ScanReturned
    /\ scan.loop = "diag"
    /\ scan.st.rows = 1
    /\ \E p \in 1..Len(csvFile.lines) : csvFile.lines[p].undecodable
    /\ \E p \in 1..Len(csvFile.lines) :
          ~csvFile.lines[p].undecodable /\ csvFile.lines[p].ts = NoTime
                                        /\ ~IsUnixMs(csvFile.lines[p])

\* ---- rows read again after the seek
\* Every row of the file has a timestamp that parses.
AllParse(file) == \A r \in 1..Len(RowsOf(file)) : RowsOf(file)[r].ts # NoTime

\* C29 (as claimed, and only on the files whose rows all have a timestamp, in
\* non-decreasing order): the rows extractSeries reads from the row findOffset
\* returns up to the first row whose timestamp is at or after start are at most
\* the stride less one.
C29_RescanBound ==
    (/\ Answered
     /\ AllParse(csvFile)
     /\ NonDecreasing(csvFile)
     /\ resp.start # NoTime
     /\ WindowRows(csvFile, resp.start, NoTime) # {}) =>
        LET first == CHOOSE r \in WindowRows(csvFile, resp.start, NoTime) :
                        \A q \in WindowRows(csvFile, resp.start, NoTime) : r <= q
        IN  first - resp.startRow <= ScaledStride - 1

\* ---- index entries
\* The position among the data lines of the file of its row-th row (the row-th
\* line that decodes).
RECURSIVE PosOfRow(_, _, _)
PosOfRow(file, row, p) ==
    IF p > Len(file.lines) THEN p
    ELSE IF ~file.lines[p].undecodable
         THEN (IF row = 1 THEN p ELSE PosOfRow(file, row - 1, p + 1))
         ELSE PosOfRow(file, row, p + 1)
\* The rows that are to have an index entry: row 1 and the multiples of the stride,
\* when their timestamp parses.
IndexedRows(file, stride) ==
    {r \in 1..Len(RowsOf(file)) : (r = 1 \/ r % stride = 0) /\ RowsOf(file)[r].ts # NoTime}

\* C30: the index holds one entry for each row that is row 1 or a multiple of the
\* stride and whose timestamp parsed, in the order of the rows, and no other entry;
\* the offset of an entry is the byte position at which the line of its row starts,
\* the lines that were skipped counted in, its time is the timestamp of that row,
\* and the line read at the offset is that row.
C30_IndexEntries ==
    dataFile.built =>
        /\ {dataFile.index[i].row : i \in 1..Len(dataFile.index)} = IndexedRows(csvFile, ScaledStride)
        /\ \A i \in 1..(Len(dataFile.index) - 1) : dataFile.index[i].row < dataFile.index[i + 1].row
        /\ \A i \in 1..Len(dataFile.index) :
              LET e == dataFile.index[i]
                  p == PosOfRow(csvFile, e.row, 1)
              IN  /\ p \in 1..Len(csvFile.lines)
                  /\ e.offset = OffsetOfLine(csvFile, p)
                  /\ e.time = csvFile.lines[p].ts
                  /\ LineAt(csvFile, e.offset, 1, csvFile.header.len) = p

\* C30 witness: an index of two entries, for row 1 and for a stride row, on a file
\* with a line that was skipped before the second of them.
C30_Witness ==
    /\ dataFile.built
    /\ Len(dataFile.index) = 2
    /\ \E p \in 1..Len(csvFile.lines) :
          csvFile.lines[p].undecodable /\ p < PosOfRow(csvFile, dataFile.index[2].row, 1)

\* ---- end of the best streak
\* This step gives the threshold processor a row; this step is its finalize.
ThrRowStep == thr.built /\ Len(fed') = Len(fed) + 1
ThrFinalizeStep == thr.built /\ ~thr.finalized /\ thr'.finalized

\* C31: a row replaces the best streak only by closing a longer one, that row has
\* the cell and does not pass, and the end recorded is the timestamp of that very
\* row; finalize replaces the best streak only by a longer one still open, the end
\* recorded is then the zero time and the finding has end 0; a best streak that a
\* row had closed keeps its end through finalize, and the finding carries it.
C31_StreakEndAsymmetry ==
    [][/\ ThrRowStep =>
            LET old == thr.states[1]
                new == thr'.states[1]
                row == fed'[Len(fed')]
            IN  IF new.bestLen # old.bestLen
                THEN /\ new.bestLen = old.currLen
                     /\ new.bestEnd = row.ts
                     /\ Len(row.record) > 1
                     /\ new.currLen = 0
                ELSE new.bestEnd = old.bestEnd
       /\ ThrFinalizeStep =>
            LET old == thr.states[1]
                new == thr'.states[1]
            IN  /\ IF old.currLen > old.bestLen
                   THEN new.bestLen = old.currLen /\ new.bestEnd = NoTime
                   ELSE new.bestLen = old.bestLen /\ new.bestEnd = old.bestEnd
                /\ thr'.findings # <<>> =>
                      thr'.findings[1].end =
                          IF old.currLen > old.bestLen \/ old.bestEnd = NoTime
                          THEN 0 ELSE UnixMilli(old.bestEnd)
      ]_vars

\* C31 witness: a streak was closed by a row, a longer one was still open at the
\* end of the file, and the finding has no end.
C31_Witness ==
    /\ thr.built /\ thr.finalized
    /\ thr.findings # <<>>
    /\ thr.findings[1].end = 0
    /\ thr.states[1].bestLen = 2
    /\ \E n \in 2..Len(fed) : Passes(n - 1) /\ Len(fed[n].record) > 1 /\ ~Passes(n)

\* ------------------------------------------------- rangeImbalanceProcessor
\* math.MaxFloat64, above every value of a cell.
MaxFloat == 1000000

\* rangeImbalanceProcessor.onRow: the loop over p.indexes from i on; b holds bestVal,
\* minVal, bestIdx, minIdx (0-based, -1 for none) and valid.
RECURSIVE rangeScan(_, _, _, _)
rangeScan(p, b, i, record) ==
    IF i > Len(p.indexes) THEN b
    ELSE LET idx == p.indexes[i]
             parsed == parseFloatValue(record[idx + 1])
             v == parsed.v.v
         IN  IF idx < 0 \/ idx >= Len(record) THEN rangeScan(p, b, i + 1, record)
             ELSE IF ~parsed.ok \/ ~NumberFinite(parsed.v) THEN rangeScan(p, b, i + 1, record)
             ELSE rangeScan(p,
                            [bestVal |-> IF v > b.bestVal THEN v ELSE b.bestVal,
                             bestIdx |-> IF v > b.bestVal THEN i - 1 ELSE b.bestIdx,
                             minVal |-> IF v < b.minVal THEN v ELSE b.minVal,
                             minIdx |-> IF v < b.minVal THEN i - 1 ELSE b.minIdx,
                             valid |-> b.valid + 1],
                            i + 1, record)

\* rangeImbalanceProcessor.reset(ts)
rangeReset(p, ts) ==
    [built |-> p.built, template |-> p.template, indexes |-> p.indexes, labels |-> p.labels,
     highThreshold |-> p.highThreshold, lowThreshold |-> p.lowThreshold,
     minGap |-> p.minGap, minConsecutive |-> p.minConsecutive,
     currLen |-> 0, currStart |-> p.currStart, currHigh |-> "", currLow |-> "",
     bestLen |-> IF p.currLen > p.bestLen THEN p.currLen ELSE p.bestLen,
     bestStart |-> IF p.currLen > p.bestLen THEN p.currStart ELSE p.bestStart,
     bestEnd |-> IF p.currLen > p.bestLen THEN ts ELSE p.bestEnd,
     bestHigh |-> IF p.currLen > p.bestLen THEN p.currHigh ELSE p.bestHigh,
     bestLow |-> IF p.currLen > p.bestLen THEN p.currLow ELSE p.bestLow,
     finalized |-> p.finalized, findings |-> p.findings]

\* onRow without the condition on the gap.
rangeOnRowNoGap(p, ts, record) ==
    LET b == rangeScan(p, [bestVal |-> -MaxFloat, minVal |-> MaxFloat,
                           bestIdx |-> -1, minIdx |-> -1, valid |-> 0], 1, record)
    IN  IF b.valid < 2 THEN rangeReset(p, ts)
        ELSE IF /\ b.bestVal >= p.highThreshold
                /\ b.minVal <= p.lowThreshold
        THEN [p EXCEPT !.currStart = IF p.currLen = 0 THEN ts ELSE p.currStart,
                       !.currHigh = IF p.currLen = 0 THEN p.labels[b.bestIdx + 1] ELSE p.currHigh,
                       !.currLow = IF p.currLen = 0 THEN p.labels[b.minIdx + 1] ELSE p.currLow,
                       !.currLen = p.currLen + 1]
        ELSE rangeReset(p, ts)

\* rangeImbalanceProcessor.onRow(ts, record)
rangeOnRow(p, ts, record) ==
    LET b == rangeScan(p, [bestVal |-> -MaxFloat, minVal |-> MaxFloat,
                           bestIdx |-> -1, minIdx |-> -1, valid |-> 0], 1, record)
    IN  IF b.valid < 2 THEN rangeReset(p, ts)
        ELSE IF /\ b.bestVal >= p.highThreshold
                /\ b.minVal <= p.lowThreshold
                /\ b.bestVal - b.minVal >= p.minGap
        THEN [p EXCEPT !.currStart = IF p.currLen = 0 THEN ts ELSE p.currStart,
                       !.currHigh = IF p.currLen = 0 THEN p.labels[b.bestIdx + 1] ELSE p.currHigh,
                       !.currLow = IF p.currLen = 0 THEN p.labels[b.minIdx + 1] ELSE p.currLow,
                       !.currLen = p.currLen + 1]
        ELSE rangeReset(p, ts)

\* rangeImbalanceProcessor.finalize()
rangeFinalize(p) ==
    LET q == rangeReset(p, NoTime) IN
    [q EXCEPT !.finalized = TRUE,
              !.findings =
                  IF q.bestLen < q.minConsecutive THEN <<>>
                  ELSE << [templateID |-> q.template.id, title |-> q.template.name,
                           severity |-> q.template.severity,
                           instances |-> <<q.bestHigh, q.bestLow>>,
                           summary |-> [high |-> q.highThreshold, low |-> q.lowThreshold,
                                        samples |-> q.bestLen],
                           start |-> IF q.bestStart # NoTime THEN UnixMilli(q.bestStart) ELSE 0,
                           end |-> IF q.bestEnd # NoTime THEN UnixMilli(q.bestEnd) ELSE 0] >>]

\* ---- inputs
\* Most rows the imbalance processor is given.
MaxRngRows == 3
\* The processor of two columns, as buildProcessors makes it: high 3, low 1 and gap
\* 2, or high 2, low 2 and gap 1.
RangeProcessors ==
    {[built |-> TRUE, template |-> TestTemplate, indexes |-> <<1, 2>>,
      labels |-> <<"n0", "n1">>,
      highThreshold |-> c.high, lowThreshold |-> c.low, minGap |-> c.gap,
      minConsecutive |-> m,
      currLen |-> 0, currStart |-> NoTime, currHigh |-> "", currLow |-> "",
      bestLen |-> 0, bestStart |-> NoTime, bestEnd |-> NoTime, bestHigh |-> "", bestLow |-> "",
      finalized |-> FALSE, findings |-> <<>>] :
        c \in {[high |-> 3, low |-> 1, gap |-> 2], [high |-> 2, low |-> 2, gap |-> 1]},
        m \in 1..2}
\* The records of the rows: without the cells, with one, and with two cells that
\* hold numbers, NaN or text.
RngRecords ==
    {<< <<"ts">> >>, << <<"ts">>, <<"3">> >>}
    \cup {<< <<"ts">>, <<c[1]>>, <<c[2]>> >> :
            c \in {<<"1", "3">>, <<"3", "1">>, <<"2", "3">>, <<"1", "2">>, <<"2", "2">>,
                   <<"3", "3">>, <<"NaN", "3">>, <<"1", "x">>}}

\* runDiagnostics gives the processor the next row; row n is at instant n.
RngOnRow(record) ==
    /\ rng.built /\ ~rng.finalized
    /\ Len(fed) < MaxRngRows
    /\ rng' = rangeOnRow(rng, Len(fed) + 1, record)
    /\ fed' = Append(fed, [ts |-> Len(fed) + 1, record |-> record])
    /\ UNCHANGED <<thr, zig, diag, scan>>
    /\ UNCHANGED <<sessVars, storeVars, csvVars>>

\* runDiagnostics calls finalize after the last row.
RngFinalize ==
    /\ rng.built /\ ~rng.finalized
    /\ rng' = rangeFinalize(rng)
    /\ UNCHANGED <<thr, zig, fed, diag, scan>>
    /\ UNCHANGED <<sessVars, storeVars, csvVars>>

RangeInit ==
    /\ rng \in RangeProcessors
    /\ thr = NoProc /\ zig = NoProc /\ fed = <<>> /\ diag = NoDiag /\ scan = NoScan
    /\ SessIdle
    /\ StoreIdle
    /\ CsvIdle
RangeNext ==
    \/ \E record \in RngRecords : RngOnRow(record)
    \/ RngFinalize
RangeSpec == RangeInit /\ [][RangeNext]_vars

\* ---- imbalance claims
\* The columns of the processor whose cell in row n is there and holds a finite
\* number, and the value of the cell of column i.
RngCells(n) ==
    {i \in 1..Len(rng.indexes) :
        /\ rng.indexes[i] < Len(fed[n].record)
        /\ parseFloatValue(fed[n].record[rng.indexes[i] + 1]).ok
        /\ NumberFinite(parseFloatValue(fed[n].record[rng.indexes[i] + 1]).v)}
RngValue(n, i) == parseFloatValue(fed[n].record[rng.indexes[i] + 1]).v.v
\* Row n extends the streak.
RngPasses(n) ==
    /\ Cardinality(RngCells(n)) >= 2
    /\ \E h, l \in RngCells(n) :
          /\ \A i \in RngCells(n) : RngValue(n, i) <= RngValue(n, h) /\ RngValue(n, l) <= RngValue(n, i)
          /\ RngValue(n, h) >= rng.highThreshold
          /\ RngValue(n, l) <= rng.lowThreshold
          /\ RngValue(n, h) - RngValue(n, l) >= rng.minGap
\* The maximal runs of consecutive rows that pass, each as <<first, last>>.
RngRuns ==
    {r \in (1..Len(fed)) \X (1..Len(fed)) :
        /\ r[1] <= r[2]
        /\ \A n \in r[1]..r[2] : RngPasses(n)
        /\ r[1] = 1 \/ ~RngPasses(r[1] - 1)
        /\ r[2] = Len(fed) \/ ~RngPasses(r[2] + 1)}
\* The first column of row n with the greatest value, and with the least.
RngHigh(n) ==
    CHOOSE h \in RngCells(n) :
        \A i \in RngCells(n) : RngValue(n, i) < RngValue(n, h) \/ (RngValue(n, i) = RngValue(n, h) /\ h <= i)
RngLow(n) ==
    CHOOSE l \in RngCells(n) :
        \A i \in RngCells(n) : RngValue(n, i) > RngValue(n, l) \/ (RngValue(n, i) = RngValue(n, l) /\ l <= i)

\* C32: before finalize the open streak is the run of passing rows that ends at the
\* last row given (empty when that row does not pass); after finalize bestLen is
\* the length of the longest run, one finding is emitted when bestLen reaches
\* minConsecutive and none otherwise, and its instances are the labels of the high
\* and of the low column of the first row of the first of the longest runs.
C32_RangeImbalance ==
    rng.built =>
        LET runs == RngRuns
            longest == {r \in runs : \A q \in runs : q[2] - q[1] <= r[2] - r[1]}
        IN  /\ ~rng.finalized =>
                  IF Len(fed) > 0 /\ RngPasses(Len(fed))
                  THEN \E r \in runs : r[2] = Len(fed) /\ rng.currLen = r[2] - r[1] + 1
                                       /\ rng.currStart = fed[r[1]].ts
                  ELSE rng.currLen = 0
            /\ rng.finalized =>
                  /\ rng.bestLen = IF runs = {} THEN 0
                                   ELSE LET r == CHOOSE q \in longest : TRUE IN r[2] - r[1] + 1
                  /\ Len(rng.findings) = IF rng.bestLen >= rng.minConsecutive THEN 1 ELSE 0
                  /\ rng.findings # <<>> =>
                        LET r == CHOOSE q \in longest : \A o \in longest : q[1] <= o[1]
                        IN  /\ rng.findings[1].instances =
                                  <<rng.labels[RngHigh(r[1])], rng.labels[RngLow(r[1])]>>
                            /\ rng.findings[1].summary.samples = r[2] - r[1] + 1
                            /\ rng.findings[1].start = UnixMilli(fed[r[1]].ts)

\* C32 witness: a finding after a row with fewer than two finite values closed a
\* streak and a longer streak followed.
C32_Witness ==
    /\ rng.built /\ rng.finalized
    /\ rng.findings # <<>>
    /\ rng.bestLen = 2
    /\ \E n \in 2..Len(fed) : RngPasses(n - 1) /\ Cardinality(RngCells(n)) < 2

\* ---- calls made on the processors
\* The rows among the first n lines of the file that runDiagnostics is to give to
\* the processors: the lines that decode and whose first field is a timestamp of
\* a layout or an integer, in the order of the file.
RECURSIVE DiagRowsOf(_, _)
DiagRowsOf(file, n) ==
    IF n = 0 THEN <<>>
    ELSE LET line == file.lines[n] IN
         IF ~line.undecodable /\ (line.ts # NoTime \/ IsUnixMs(line))
         THEN Append(DiagRowsOf(file, n - 1), DiagRow(line, n))
         ELSE DiagRowsOf(file, n - 1)

\* C33: at every point of a diagnostics run each processor has been given exactly
\* the rows, among the lines read so far, whose timestamp parses by a layout or as
\* an integer of milliseconds, once each and in the order of the file; no
\* processor is finalized while the loop runs, and when the run returns each
\* processor has been given the rows of the whole file and finalized once.
C33_ProcessorCalls ==
    scan.loop = "diag" =>
        /\ \A i \in 1..Len(scan.st.calls) :
              /\ scan.st.calls[i] = DiagRowsOf(csvFile, scan.pos - 1)
              /\ scan.st.finalized[i] = IF scan.returned THEN 1 ELSE 0
        /\ scan.st.rows = Len(DiagRowsOf(csvFile, scan.pos - 1))
        /\ scan.returned => scan.pos = Len(csvFile.lines) + 1

\* C33 witness: a run of two processors returned after a line that was skipped, a
\* row with a timestamp of a layout and a row with milliseconds.
C33_Witness ==
    /\ scan.loop = "diag" /\ scan.returned
    /\ Len(scan.st.calls) = 2
    /\ Len(scan.st.calls[2]) = 2
    /\ \E k \in 1..2 : IsUnixMs(csvFile.lines[scan.st.calls[2][k].pos])
    /\ \E p \in 1..Len(csvFile.lines) : csvFile.lines[p].undecodable

\* ------------------------------------------------- concurrent calls on the store
\* upsert, delete and importTemplates run "s.mu.Lock(); defer s.mu.Unlock()" around
\* their whole body. A call below takes the lock, applies its change to the custom
\* map, builds the list persistCustomLocked writes, writes the file and unlocks,
\* one step each, so that other goroutines run between any two steps.

\* s.mu.Lock() on a mutex that is not locked by anyone.
CanLockAlways(mu) == TRUE
CanLock(mu) == mu = ""

\* The goroutine's position and locals in inStore.
StoreAt(t, rec) ==
    [mu |-> inStore.mu, of |-> [inStore.of EXCEPT ![t] = rec],
     returned |-> inStore.returned, failed |-> inStore.failed, wrote |-> inStore.wrote]

\* A handler calls upsert, delete or importTemplates; s.mu.Lock() returns.
StoreCall(t, call) ==
    /\ inStore.of[t].pc = "idle"
    /\ CanLock(inStore.mu)
    /\ inStore' = [mu |-> t, of |-> [inStore.of EXCEPT ![t] = [pc |-> "locked", call |-> call]],
                   returned |-> inStore.returned, failed |-> inStore.failed, wrote |-> inStore.wrote]
    /\ UNCHANGED <<builtins, custom, persisted, lastCall>>
    /\ UNCHANGED <<sessVars, csvVars, diagVars>>

\* The body of the call up to persistCustomLocked: its tests and its writes to the
\* custom map; a test that fails returns the error.
StoreApply(t) ==
    /\ inStore.of[t].pc = "locked"
    /\ LET call == inStore.of[t].call
           nano == CHOOSE n \in NanoStamps : TRUE
           t1 == withID(call.t, nano)
           id1 == TrimSpace(call.id)
           rejected == IF call.op = "upsert" THEN UpsertError(t1) # ""
                       ELSE IF call.op = "delete" THEN id1 = <<>> \/ id1 \in DOMAIN builtins
                       ELSE FALSE
       IN  /\ custom' = IF rejected THEN custom
                        ELSE IF call.op = "upsert" THEN Put(custom, t1.id, t1)
                        ELSE IF call.op = "delete" THEN Del(custom, id1)
                        ELSE importFrom(IF call.replace THEN <<>> ELSE custom, call.in, nano, 1)
           /\ inStore' = StoreAt(t, [pc |-> IF rejected THEN "unlock" ELSE "persist", call |-> call])
    /\ UNCHANGED <<builtins, persisted, lastCall>>
    /\ UNCHANGED <<sessVars, csvVars, diagVars>>

\* persistCustomLocked: out is made of the values of s.custom and sorted.
StorePersist(t) ==
    /\ inStore.of[t].pc = "persist"
    /\ \E out \in persistCustomLocked(custom) :
          inStore' = StoreAt(t, [pc |-> "write", call |-> inStore.of[t].call, out |-> out])
    /\ UNCHANGED <<builtins, custom, persisted, lastCall>>
    /\ UNCHANGED <<sessVars, csvVars, diagVars>>

\* persistCustomLocked: os.WriteFile writes the file.
StoreWrite(t) ==
    /\ inStore.of[t].pc = "write"
    /\ persisted' = inStore.of[t].out
    /\ inStore' = [mu |-> inStore.mu,
                   of |-> [inStore.of EXCEPT ![t] = [pc |-> "unlock", call |-> inStore.of[t].call]],
                   returned |-> inStore.returned, failed |-> inStore.failed, wrote |-> TRUE]
    /\ UNCHANGED <<builtins, custom, lastCall>>
    /\ UNCHANGED <<sessVars, csvVars, diagVars>>

\* persistCustomLocked: MkdirAll or WriteFile fails and the call returns the error;
\* the custom map keeps the change.
StoreWriteFails(t) ==
    /\ inStore.of[t].pc = "write"
    /\ inStore' = [mu |-> inStore.mu,
                   of |-> [inStore.of EXCEPT ![t] = [pc |-> "unlock", call |-> inStore.of[t].call]],
                   returned |-> inStore.returned, failed |-> TRUE, wrote |-> inStore.wrote]
    /\ UNCHANGED <<builtins, custom, persisted, lastCall>>
    /\ UNCHANGED <<sessVars, csvVars, diagVars>>

\* The deferred s.mu.Unlock(); the call returns.
StoreUnlock(t) ==
    /\ inStore.of[t].pc = "unlock"
    /\ inStore' = [mu |-> "", of |-> [inStore.of EXCEPT ![t] = NoCall],
                   returned |-> inStore.returned + 1, failed |-> inStore.failed, wrote |-> inStore.wrote]
    /\ UNCHANGED <<builtins, custom, persisted, lastCall>>
    /\ UNCHANGED <<sessVars, csvVars, diagVars>>

\* ---- inputs
\* Most calls made on the store.
MaxCalls == 3
\* The calls the goroutines make: upserts of two templates and of one with the ID of
\* a built-in, a delete, and imports with and without replace.
StoreCalls ==
    {[op |-> "upsert", t |-> t, id |-> <<>>, in |-> <<>>, replace |-> FALSE] :
        t \in {Tpl(CustomPrefix \o <<"x">>, <<"M">>, "t", 0),
               Tpl(<<>>, <<"M", "y", " ", "R">>, "t", 0),
               Tpl(BuiltinID, <<"M">>, "t", 0)}}
    \cup {[op |-> "delete", t |-> Tpl(<<>>, <<>>, "", 0), id |-> CustomPrefix \o <<"x">>,
           in |-> <<>>, replace |-> FALSE]}
    \cup {[op |-> "import", t |-> Tpl(<<>>, <<>>, "", 0), id |-> <<>>,
           in |-> <<Tpl(<<"x">>, <<"M">>, "t", 0)>>, replace |-> r] : r \in BOOLEAN}

LockNext ==
    \/ \E t \in Threads, call \in StoreCalls :
          inStore.returned + Cardinality({u \in Threads : inStore.of[u].pc # "idle"}) < MaxCalls
          /\ StoreCall(t, call)
    \/ \E t \in Threads : StoreApply(t)
    \/ \E t \in Threads : StorePersist(t)
    \/ \E t \in Threads : StoreWrite(t)
    \/ \E t \in Threads : StoreWriteFails(t)
    \/ \E t \in Threads : StoreUnlock(t)
LockSpec == StoreInit /\ [][LockNext]_vars

\* ---- claims on concurrent calls
\* C34: at most one goroutine is between Lock and Unlock; and whenever no call is
\* in progress, some call has returned after writing the file and no write has
\* failed, the file holds exactly the templates of the custom map, in an order
\* persistCustomLocked may give them.
C34_AtomicPersist ==
    /\ Cardinality({t \in Threads : inStore.of[t].pc # "idle"}) <= 1
    /\ \A t \in Threads : inStore.of[t].pc # "idle" => inStore.mu = t
    /\ (/\ \A t \in Threads : inStore.of[t].pc = "idle"
        /\ ~inStore.failed
        /\ inStore.wrote) =>
           persisted \in persistCustomLocked(custom)

\* C34 witness: three calls have returned, two of them upserts by different
\* goroutines that both wrote the file, and the map holds both templates.
C34_Witness ==
    /\ inStore.returned = 3
    /\ \A t \in Threads : inStore.of[t].pc = "idle"
    /\ inStore.wrote /\ ~inStore.failed
    /\ Cardinality(DOMAIN custom) >= 2

\* ------------------------------------------------- SessionForRequest, step by step
\* SessionForRequest: "id := s.getSessionIDFromRequest(r); now := time.Now()",
\* before s.mu.Lock(); the request carries the ID id.
SfrEnter(t, id) ==
    /\ Idle(t)
    /\ sfr' = [sfr EXCEPT ![t] = [id |-> id, now |-> now]]
    /\ pc' = [pc EXCEPT ![t] = "sfrwait"]
    /\ UNCHANGED <<registry, sess, defaultDF, disk, tmpSeq, now, localDF, ptr,
                   sweepPc, sweepNow, sweepExpired, installed, removeCalls>>
    /\ UNCHANGED <<storeVars, csvVars, diagVars>>

\* SessionForRequest from s.mu.Lock() to the deferred Unlock: the session of the ID
\* is looked up, made when there is none, and stamped with the local now otherwise.
SfrLocked(t) ==
    /\ pc[t] = "sfrwait"
    /\ LET id == sfr[t].id IN
       IF registry[id] = 0
       THEN LET o == Cardinality(DOMAIN sess) + 1 IN
            /\ o <= MaxObj
            /\ sess' = sess @@ (o :> [df |-> defaultDF, lastSeen |-> sfr[t].now])
            /\ registry' = [registry EXCEPT ![id] = o]
            /\ ptr' = [ptr EXCEPT ![t] = o]
       ELSE /\ sess' = [sess EXCEPT ![registry[id]] =
                           [df |-> sess[registry[id]].df, lastSeen |-> sfr[t].now]]
            /\ ptr' = [ptr EXCEPT ![t] = registry[id]]
            /\ UNCHANGED registry
    /\ pc' = [pc EXCEPT ![t] = "sfrdone"]
    /\ UNCHANGED <<defaultDF, disk, tmpSeq, now, localDF, sfr,
                   sweepPc, sweepNow, sweepExpired, installed, removeCalls>>
    /\ UNCHANGED <<storeVars, csvVars, diagVars>>

\* The handler is done with the session it was given.
SfrReturn(t) ==
    /\ pc[t] = "sfrdone"
    /\ pc' = [pc EXCEPT ![t] = "idle"]
    /\ ptr' = [ptr EXCEPT ![t] = 0]
    /\ sfr' = [sfr EXCEPT ![t] = NoSfr]
    /\ UNCHANGED <<registry, sess, defaultDF, disk, tmpSeq, now, localDF,
                   sweepPc, sweepNow, sweepExpired, installed, removeCalls>>
    /\ UNCHANGED <<storeVars, csvVars, diagVars>>

\* Concurrent requests that only look their session up, and the clock.
SfrNext ==
    \/ \E t \in Threads, id \in SessionIDs : SfrEnter(t, id)
    \/ \E t \in Threads : SfrLocked(t)
    \/ \E t \in Threads : SfrReturn(t)
    \/ Tick
SfrSpec == SessInit /\ [][SfrNext]_vars

\* This step is the locked part of goroutine t's SessionForRequest call.
SfrLockedStep(t) == pc[t] = "sfrwait" /\ pc'[t] = "sfrdone"

\* C35 (as claimed): a call with an ID that has no session makes one Session, with
\* the default file, registers it and returns it, and no ID ever gets a second
\* Session; a call with an ID that has a session returns that Session, leaves its
\* DataFile and the registry unchanged and sets its lastSeen to the current time;
\* callers that hold a Session for the same ID hold the same one.
C35_OneSessionPerID ==
    /\ [][\A t \in Threads :
            SfrLockedStep(t) =>
                LET id == sfr[t].id IN
                IF registry[id] = 0
                THEN /\ ptr'[t] \notin DOMAIN sess
                     /\ DOMAIN sess' = DOMAIN sess \cup {ptr'[t]}
                     /\ registry' = [registry EXCEPT ![id] = ptr'[t]]
                     /\ sess'[ptr'[t]].df = defaultDF
                     /\ \A o \in DOMAIN sess : sess'[o] = sess[o]
                ELSE /\ ptr'[t] = registry[id]
                     /\ registry' = registry
                     /\ DOMAIN sess' = DOMAIN sess
                     /\ \A o \in DOMAIN sess : sess'[o].df = sess[o].df
                     /\ sess'[registry[id]].lastSeen = now
      ]_vars
    /\ [](\A t, u \in Threads :
            (pc[t] = "sfrdone" /\ pc[u] = "sfrdone" /\ sfr[t].id = sfr[u].id) => ptr[t] = ptr[u])

\* The same without "lastSeen is the current time": lastSeen is the time the call
\* read before it waited for the lock.
C35_LastSeenIsLocalNow ==
    /\ [][\A t \in Threads :
            SfrLockedStep(t) =>
                LET id == sfr[t].id IN
                IF registry[id] = 0
                THEN /\ ptr'[t] \notin DOMAIN sess
                     /\ DOMAIN sess' = DOMAIN sess \cup {ptr'[t]}
                     /\ registry' = [registry EXCEPT ![id] = ptr'[t]]
                     /\ sess'[ptr'[t]].df = defaultDF
                     /\ \A o \in DOMAIN sess : sess'[o] = sess[o]
                ELSE /\ ptr'[t] = registry[id]
                     /\ registry' = registry
                     /\ DOMAIN sess' = DOMAIN sess
                     /\ \A o \in DOMAIN sess : sess'[o].df = sess[o].df
                     /\ sess'[registry[id]].lastSeen = sfr[t].now
      ]_vars
    /\ [](\A t, u \in Threads :
            (pc[t] = "sfrdone" /\ pc[u] = "sfrdone" /\ sfr[t].id = sfr[u].id) => ptr[t] = ptr[u])

\* ------------------------------------------------- import semantics
\* The entries of in as importTemplates stores them: normalized, with their ID.
ImportEntries(in, nano) == [i \in 1..Len(in) |-> withID(in[i], nano)]

\* The entries of in the claim has importTemplates accept: those whose ID is not a
\* built-in's and whose name and detector type, as sent, are not empty.
ClaimedAccepted(in, nano) ==
    {i \in 1..Len(in) :
        /\ ImportEntries(in, nano)[i].id \notin DOMAIN builtins
        /\ TrimSpace(in[i].name) # <<>>
        /\ ~IsBlank(in[i].dtype)}

\* The entries of in whose ID is not a built-in's and whose name is not empty.
NamedAccepted(in, nano) ==
    {i \in 1..Len(in) :
        /\ ImportEntries(in, nano)[i].id \notin DOMAIN builtins
        /\ TrimSpace(in[i].name) # <<>>}

\* What an import of in leaves in the custom map when acc are the entries it
\* accepts: with replace exactly the accepted entries, by ID; without, the accepted
\* entries and every entry the map had under another ID, unchanged.
ImportOutcome(in, replace, nano, acc) ==
    LET e == ImportEntries(in, nano)
        ids == {e[i].id : i \in acc}
    IN  /\ DOMAIN custom' = ids \cup (IF replace THEN {} ELSE DOMAIN custom)
        /\ \A k \in ids : \E i \in acc : e[i].id = k /\ custom'[k] = e[i]
        /\ \A k \in DOMAIN custom' \ ids : custom'[k] = custom[k]

\* This step is importTemplates(in, replace) returning, with the clock printing nano.
ImportStep(in, replace, nano) ==
    /\ lastCall'.op = "import"
    /\ custom' = importFrom(IF replace THEN <<>> ELSE custom, in, nano, 1)

\* C36 (as claimed): importTemplates(in, replace) with replace leaves the custom map
\* equal to exactly the accepted entries of in, and without replace leaves every
\* custom entry whose ID is not in in unchanged; an entry whose ID is a built-in's
\* or whose name or detector type is empty is not stored.
C36_ImportSemantics ==
    [][\A in \in ImportLists, replace \in BOOLEAN, nano \in NanoStamps :
          ImportStep(in, replace, nano) =>
              ImportOutcome(in, replace, nano, ClaimedAccepted(in, nano))]_vars

\* The same with the entries accepted whatever their detector type is.
C36_ImportIgnoresEmptyType ==
    [][\A in \in ImportLists, replace \in BOOLEAN, nano \in NanoStamps :
          ImportStep(in, replace, nano) =>
              ImportOutcome(in, replace, nano, NamedAccepted(in, nano))]_vars

\* ------------------------------------------------- dominance processor: counters
\* C37: in every state of the dominance processor switches <= max(0, observations - 1)
\* and prevDominant is -1 exactly when observations is 0, so switches >= minSwitches
\* implies observations >= minSwitches + 1.
C37_SwitchesBelowObservations ==
    zig.built =>
        /\ zig.switches <= (IF zig.observations >= 1 THEN zig.observations - 1 ELSE 0)
        /\ (zig.prevDominant = -1) <=> (zig.observations = 0)
        /\ zig.switches >= zig.minSwitches => zig.observations >= zig.minSwitches + 1
\* C37 happens: every counted row after the first switched, the switches reach
\* minSwitches, and a row that did not count came first.
C37_Witness ==
    /\ zig.built
    /\ zig.switches >= zig.minSwitches
    /\ zig.switches = zig.observations - 1
    /\ zig.switches >= 1
    /\ zig.prevDominant >= 0
    /\ Len(fed) > zig.observations

\* ------------------------------------------------- row numbers of the two scans
\* The row number buildIndex holds when it has read the data lines 1..p of file.
IndexRowAt(file, p) ==
    indexLines([row |-> 0, offset |-> file.header.len, startTime |-> NoTime,
                endTime |-> NoTime, index |-> <<>>],
               SubSeq(file.lines, 1, p), 1, ScaledStride).row

\* extractSeries is in its loop and the next line it reads is a line of the file.
ExtractReading ==
    /\ ScanRunning
    /\ scan.loop = "extract"
    /\ scan.pos <= Len(csvFile.lines)

\* C38: from the index entry (or the data start with row 1) the seek went to, the
\* row counter extractSeries holds when it reads a row is the number buildIndex
\* gave that row; a line that does not decode leaves the counter as it is, a row
\* whose timestamp does not parse and a row before start add one to it.
C38_SameRowNumbers ==
    /\ [](ExtractReading /\ ~csvFile.lines[scan.pos].undecodable =>
            scan.st.row = IndexRowAt(csvFile, scan.pos))
    /\ [][ExtractReading /\ ExtractScanStep =>
            LET line == csvFile.lines[scan.pos] IN
            /\ line.undecodable =>
                  /\ scan'.st.row = scan.st.row
                  /\ IndexRowAt(csvFile, scan.pos) = IndexRowAt(csvFile, scan.pos - 1)
            /\ (~line.undecodable /\ (line.ts = NoTime
                                      \/ (scan.a.start # NoTime /\ line.ts < scan.a.start))) =>
                  /\ scan'.st.row = scan.st.row + 1
                  /\ IndexRowAt(csvFile, scan.pos) = IndexRowAt(csvFile, scan.pos - 1) + 1
       ]_vars

\* C38 happens: the seek went to the index entry of row 2, past a line that does
\* not decode, and the scan has gone on to the next line.
C38_Witness ==
    /\ scan.loop = "extract"
    /\ scan.a.startRow = 2
    /\ csvFile.lines[2].undecodable
    /\ scan.pos = 4
    /\ scan.st.row = 3

\* ------------------------------------------------- persist and load
\* This step is an upsert, a delete or an import that returned no error.
StoreSucceeded == lastCall'.op \in {"upsert", "delete", "import"} /\ ~lastCall'.err

\* The templates the store is given or finds: those of the requests and of the
\* start files.
TemplatesSeen ==
    UpsertInputs \cup ImportInputs
    \cup UNION {{f.templates[i] : i \in 1..Len(f.templates)} : f \in StartFiles}

\* C39 (as claimed): after a successful upsert, delete or import, a new store made
\* from the persisted file with the same built-ins has a custom map equal to the
\* custom map in memory; normalizeTemplate applied twice is normalizeTemplate
\* applied once.
C39_PersistLoadRoundTrip ==
    /\ [][StoreSucceeded => loadCustom(persisted') = custom']_vars
    /\ [](\A t \in TemplatesSeen :
            normalizeTemplate(normalizeTemplate(t)) = normalizeTemplate(t))
    /\ [](\A k \in DOMAIN custom : normalizeTemplate(custom[k]) = custom[k])

\* The same for the stores whose custom map holds every template under its own ID.
C39_RoundTripOfOwnKeys ==
    /\ [][(StoreSucceeded /\ \A k \in DOMAIN custom' : custom'[k].id = k) =>
             loadCustom(persisted') = custom']_vars
    /\ [](\A t \in TemplatesSeen :
            normalizeTemplate(normalizeTemplate(t)) = normalizeTemplate(t))
    /\ [](\A k \in DOMAIN custom : normalizeTemplate(custom[k]) = custom[k])

\* ------------------------------------------------- uploads against the sweep
\* /api/upload and /api/open-url requests that carry the session ID "a" or none,
\* the sweep and the clock.
UploadNext ==
    \/ \E t \in Threads : CreateTemp(t)
    \/ \E t \in Threads : IngestOk(t)
    \/ \E t \in Threads : IngestFail(t)
    \/ \E t \in Threads, hdr \in {"a", ""} : SessionForRequest(t, hdr, "a")
    \/ \E t \in Threads : DoReplace(t)
    \/ SweepStart
    \/ SweepCollect
    \/ \E o \in DOMAIN sess : SweepClose(o)
    \/ Tick
UploadSpec == SessInit /\ [][UploadNext]_vars

\* The system-created temp files on disk.
TempFilesOnDisk == {p \in disk : IsTemp(p)}

\* C40 (as claimed): whenever no request and no sweep is in flight, every
\* system-created temp file on disk is the current DataFile of a session that is
\* in the registry.
C40_TempFilesRegistered ==
    Quiescent =>
        \A p \in TempFilesOnDisk :
            \E o \in DOMAIN sess : Registered(o) /\ ~sess[o].df.nil /\ sess[o].df.path = p

\* The same with the Session objects the sweep took out of the registry counted in.
C40_TempFilesHeld ==
    Quiescent =>
        \A p \in TempFilesOnDisk :
            \E o \in DOMAIN sess : ~sess[o].df.nil /\ sess[o].df.path = p

====
